---------------------------- MODULE Spec2Model ----------------------------
(***************************************************************************)
(* curly: the request/response domain model, the authentication            *)
(* strategies, the HTTP execution engine (httpClient.Execute) and the      *)
(* application service that executes a request and records it in history   *)
(* (RequestService.ExecuteAndSave).                                        *)
(*                                                                         *)
(* Go strings are modelled as sequences of one-character strings, so that  *)
(* strings.TrimSpace, strings.ToUpper and strings.ContainsAny are computed *)
(* character by character.                                                 *)
(***************************************************************************)
EXTENDS Integers, Sequences, FiniteSets, Bags, TLC

(***************************************************************************)
(* Bounds of the model.                                                    *)
(***************************************************************************)
\* Largest value of Config.MaxRedirects the model explores.
MaxRedirectsBound == 2
\* Largest number of redirect responses one call receives from the server.
MaxChain == 3
\* Largest number of commands of the interface running or waiting in the
\* inbox at once.
MaxPending == 2
\* Largest number of requests the interface sends.
MaxSends == 2
\* The ids of the history entries earlier sessions may have left.
EarlierEntries == {1, 2, 3}

(***************************************************************************)
(* State.                                                                  *)
(*                                                                         *)
(* Callers are the goroutines that call the client or the service.  Each   *)
(* holds its own request and context; config is the client's Config, set   *)
(* by NewClient and never written afterwards.                              *)
(***************************************************************************)
Callers == {"c1", "c2"}

VARIABLES
    config,        \* httpClient.config: [FollowRedirects, MaxRedirects]
    op,            \* op[c]: the operation caller c runs: "Execute" or "ExecuteAndSave"
    req,           \* req[c]: the request caller c passes
    ctx,           \* ctx[c]: "live", "canceled" or "deadline": the state of c's context
    ctxAtCall,     \* ctx[c] at the moment Execute was called
    step,          \* step[c]: 0 before Execute is called, else the index in ExecuteSteps
    inDo,          \* inDo[c]: client.Do has been called and has not returned
    wire,          \* wire[c]: the wire request of the call (httpReq)
    via,           \* via[c]: requests client.Do has made so far in this call (len(via))
    seen,          \* seen[c]: redirect responses the server has sent to this call
    doCalls,       \* doCalls[c]: how many times Execute has called client.Do
    netStarted,    \* netStarted[c]: the transport has sent something for this call
    trace,         \* trace[c]: what the transport and the body reader met, in order
    awaiting,      \* awaiting[c]: a request is on the wire and its response has not come
    httpStatus,    \* httpStatus[c]: the status of the response client.Do returned, 0 before
    result,        \* result[c]: the value Execute returned, NoResult before it returns
    svStep,        \* svStep[c]: 0 before ExecuteAndSave is called, else the index in ExecuteAndSaveSteps
    svResult,      \* svResult[c]: the value ExecuteAndSave returned
    saveAttempts,  \* saveAttempts[c]: calls of historyRepo.Save made by c's ExecuteAndSave
    saveErr,       \* saveErr[c]: the error of c's historyRepo.Save, Nil when it succeeded
    savedAfter,    \* savedAfter[c]: Execute had returned when c's Save was attempted
    requests,      \* the ids in the requests table
    history,       \* the rows of the history table
    authIn,        \* the strategy Apply is called on
    wireIn,        \* the wire request Apply is called with
    applyOut,      \* the error Apply returned and the wire request after the call
    vReq,          \* the request Validate is called on
    vOut,          \* the error Validate returned
    table,         \* the requests table of the repository: id -> stored row
    toCreate,      \* the request RequestRepository.Create is called with
    created,       \* Create has been called, and the error it returned
    found,         \* what RequestRepository.FindByID returned
    heap,          \* the maps allocated so far: address -> map[string]string
    original,      \* the request Clone is called on: the addresses of its two maps
    clone,         \* the request Clone returned
    expected,      \* what each request's maps hold by the mutations applied to it alone
    files,         \* the migrations of the migrations directory (or the embedded list)
    db,            \* the database: schema_migrations exists, its rows, the schema objects
    writer,        \* the runner whose transaction holds SQLite's write lock, or "none"
    run,           \* run[r]: the call of runMigrations that runner r is in
    commitCount,   \* commitCount[v]: committed applications of a migration of version v
    resp,          \* the Response the predicates are called on: [StatusCode, Headers]
    answer,        \* the last call on resp and what it returned
    model,         \* the MainModel the program holds
    running,       \* the commands that run: a bag
    inbox,         \* the messages commands returned, not yet passed to Update: a bag
    store,         \* the ids of the rows of the history table
    issued,        \* the sends that started ExecuteAndSave so far
    quit,          \* an Update has returned tea.Quit (or the program has panicked)
    lastMsg,       \* the last message passed to an Update called on its own
    saving         \* saving[s]: the call of SaveRequest by caller s and where it is

execVars == <<config, op, req, ctx, ctxAtCall, step, inDo, wire, via, seen, doCalls,
              netStarted, trace, awaiting, httpStatus, result>>
saveVars == <<svStep, svResult, saveAttempts, saveErr, savedAfter, requests, history>>
authVars == <<authIn, wireIn, applyOut>>
valVars == <<vReq, vOut>>
repoVars == <<table, toCreate, created, found>>
cloneVars == <<heap, original, clone, expected>>
migVars == <<files, db, writer, run, commitCount>>
respVars == <<resp, answer>>
uiVars == <<model, running, inbox, store, issued, quit, lastMsg>>
svcVars == <<saving>>
restVars == <<migVars, respVars, uiVars, svcVars>>
otherThanMig == <<respVars, uiVars, svcVars>>
otherThanResp == <<migVars, uiVars, svcVars>>
otherThanUI == <<migVars, respVars, svcVars>>
otherThanSaving == <<migVars, respVars, uiVars>>
vars == <<execVars, saveVars, authVars, valVars, repoVars, cloneVars, restVars>>

(***************************************************************************)
(* Strings.                                                                *)
(***************************************************************************)
Nil == "nil"

LowerChars == <<"a","b","c","d","e","f","g","h","i","j","k","l","m",
                "n","o","p","q","r","s","t","u","v","w","x","y","z">>
UpperChars == <<"A","B","C","D","E","F","G","H","I","J","K","L","M",
                "N","O","P","Q","R","S","T","U","V","W","X","Y","Z">>

\* unicode.IsSpace for the characters the model uses.
IsSpace(ch) == ch \in {" ", "\t", "\n", "\r"}

ToUpperChar(ch) ==
    IF \E i \in 1..Len(LowerChars) : LowerChars[i] = ch
    THEN UpperChars[CHOOSE i \in 1..Len(LowerChars) : LowerChars[i] = ch]
    ELSE ch

\* strings.ToUpper
ToUpper(s) == [i \in 1..Len(s) |-> ToUpperChar(s[i])]

RECURSIVE TrimLeft(_)
TrimLeft(s) ==
    IF s = <<>> THEN <<>>
    ELSE IF IsSpace(Head(s)) THEN TrimLeft(Tail(s)) ELSE s

RECURSIVE TrimRight(_)
TrimRight(s) ==
    IF s = <<>> THEN <<>>
    ELSE IF IsSpace(s[Len(s)]) THEN TrimRight(SubSeq(s, 1, Len(s) - 1)) ELSE s

\* strings.TrimSpace
TrimSpace(s) == TrimRight(TrimLeft(s))

\* strings.ContainsAny(s, chars)
ContainsAny(s, chars) == \E i \in 1..Len(s) : s[i] \in chars

(***************************************************************************)
(* Authentication strategies (domain.AuthConfig and its four variants).    *)
(* A nil AuthConfig is NilAuth.                                            *)
(***************************************************************************)
NilAuth == [Type |-> "nil"]
NoAuth == [Type |-> "none"]
BasicAuth(username, password) ==
    [Type |-> "basic", Username |-> username, Password |-> password]
BearerAuth(token) == [Type |-> "bearer", Token |-> token]
APIKeyAuth(key, value, location) ==
    [Type |-> "apikey", Key |-> key, Value |-> value, Location |-> location]

APIKeyLocationHeader == "header"
APIKeyLocationQuery == "query"

\* BasicAuth.Validate
BasicAuthValidate(a) ==
    IF TrimSpace(a.Username) = <<>> THEN "ErrMissingUsername"
    ELSE IF a.Password = <<>> THEN "ErrMissingPassword"
    ELSE Nil

\* BearerAuth.Validate
BearerAuthValidate(a) ==
    IF TrimSpace(a.Token) = <<>> THEN "ErrMissingToken" ELSE Nil

\* APIKeyAuth.Validate
APIKeyAuthValidate(a) ==
    IF TrimSpace(a.Key) = <<>> THEN "ErrMissingAPIKeyName"
    ELSE IF TrimSpace(a.Value) = <<>> THEN "ErrMissingAPIKey"
    ELSE IF a.Location # APIKeyLocationHeader /\ a.Location # APIKeyLocationQuery
         THEN "ErrInvalidAPIKeyLocation"
    ELSE Nil

\* AuthConfig.Validate, dispatched on the variant.
AuthValidate(a) ==
    CASE a.Type = "none" -> Nil
      [] a.Type = "basic" -> BasicAuthValidate(a)
      [] a.Type = "bearer" -> BearerAuthValidate(a)
      [] a.Type = "apikey" -> APIKeyAuthValidate(a)

(***************************************************************************)
(* The wire request (an http.Request): its header and its URL.            *)
(* Header maps a canonical header name to its value.  URL.Query maps a     *)
(* query key to the sequence of its values (url.Values).                   *)
(***************************************************************************)
\* The bytes net/textproto accepts in a header name, among the characters used.
IsTokenChar(ch) == ch \notin {" ", ":", "\t", "\n", "\r"}

\* textproto.CanonicalMIMEHeaderKey: a name holding a byte that is no token
\* character is returned unchanged; otherwise the first letter and every
\* letter after a hyphen are upper-cased and the others lower-cased.
ToLowerChar(ch) ==
    IF \E i \in 1..Len(UpperChars) : UpperChars[i] = ch
    THEN LowerChars[CHOOSE i \in 1..Len(UpperChars) : UpperChars[i] = ch]
    ELSE ch

CanonicalHeaderKey(name) ==
    IF \E i \in 1..Len(name) : ~IsTokenChar(name[i]) THEN name
    ELSE [i \in 1..Len(name) |->
            IF i = 1 \/ name[i - 1] = "-" THEN ToUpperChar(name[i])
            ELSE ToLowerChar(name[i])]

\* http.Header.Set
HeaderSet(header, name, value) ==
    LET k == CanonicalHeaderKey(name)
    IN [n \in DOMAIN header \cup {k} |-> IF n = k THEN value ELSE header[n]]

\* url.Values.Add in the place of Set: the value joins the key's values.
ValuesAdd(query, key, value) ==
    [k \in DOMAIN query \cup {key} |->
        IF k = key
        THEN (IF key \in DOMAIN query THEN query[key] ELSE <<>>) \o <<value>>
        ELSE query[k]]

\* url.Values.Set: the key's values are replaced by the single value.
ValuesSet(query, key, value) ==
    [k \in DOMAIN query \cup {key} |-> IF k = key THEN <<value>> ELSE query[k]]

AuthorizationHeader == <<"A","u","t","h","o","r","i","z","a","t","i","o","n">>

\* base64.StdEncoding.EncodeToString, kept symbolic: the encoding of a byte
\* string is a string distinct from the byte string and from the encoding of
\* every other byte string.
Base64(bytes) == <<"base64[">> \o bytes \o <<"]">>

\* BasicAuth.Apply with the header set before the strategy is validated.
BasicAuthApplySetsFirst(a, w) ==
    [err |-> BasicAuthValidate(a),
     wire |-> [w EXCEPT !.Header =
                 HeaderSet(@, AuthorizationHeader,
                           <<"Basic ">> \o Base64(a.Username \o <<":">> \o a.Password))]]

\* BasicAuth.Apply: the error and the wire request after the call.
BasicAuthApply(a, w) ==
    IF BasicAuthValidate(a) # Nil
    THEN [err |-> BasicAuthValidate(a), wire |-> w]
    ELSE [err |-> Nil,
          wire |-> [w EXCEPT !.Header =
                      HeaderSet(@, AuthorizationHeader,
                                <<"Basic ">> \o Base64(a.Username \o <<":">> \o a.Password))]]

\* BearerAuth.Apply
BearerAuthApply(a, w) ==
    IF BearerAuthValidate(a) # Nil
    THEN [err |-> BearerAuthValidate(a), wire |-> w]
    ELSE [err |-> Nil,
          wire |-> [w EXCEPT !.Header =
                      HeaderSet(@, AuthorizationHeader, <<"Bearer ">> \o a.Token)]]

\* APIKeyAuth.Apply
APIKeyAuthApply(a, w) ==
    IF APIKeyAuthValidate(a) # Nil
    THEN [err |-> APIKeyAuthValidate(a), wire |-> w]
    ELSE IF a.Location = APIKeyLocationHeader
         THEN [err |-> Nil, wire |-> [w EXCEPT !.Header = HeaderSet(@, a.Key, a.Value)]]
    ELSE IF a.Location = APIKeyLocationQuery
         THEN [err |-> Nil, wire |-> [w EXCEPT !.URL.Query = ValuesSet(@, a.Key, a.Value)]]
    ELSE [err |-> "ErrInvalidAPIKeyLocation", wire |-> w]

\* AuthConfig.Apply, dispatched on the variant.
AuthApply(a, w) ==
    CASE a.Type = "none" -> [err |-> Nil, wire |-> w]
      [] a.Type = "basic" -> BasicAuthApply(a, w)
      [] a.Type = "bearer" -> BearerAuthApply(a, w)
      [] a.Type = "apikey" -> APIKeyAuthApply(a, w)

(***************************************************************************)
(* The Request entity (domain.Request) and its validation.                 *)
(* URL holds what url.Parse yields for the request's URL text: whether the *)
(* text is blank, whether it parses, and the parsed scheme, host, path,    *)
(* query and fragment.                                                     *)
(***************************************************************************)
MethodGet == <<"G","E","T">>
MethodPost == <<"P","O","S","T">>
MethodPut == <<"P","U","T">>
MethodPatch == <<"P","A","T","C","H">>
MethodDelete == <<"D","E","L","E","T","E">>
MethodHead == <<"H","E","A","D">>
MethodOptions == <<"O","P","T","I","O","N","S">>

SupportedMethods ==
    <<MethodGet, MethodPost, MethodPut, MethodPatch, MethodDelete, MethodHead, MethodOptions>>

\* Request.ValidateMethod
ValidateMethod(r) ==
    IF TrimSpace(r.Method) = <<>> THEN "ErrEmptyMethod"
    ELSE IF \E i \in 1..Len(SupportedMethods) : ToUpper(r.Method) = SupportedMethods[i]
         THEN Nil
    ELSE "ErrInvalidMethod"

\* Request.ValidateURL
ValidateURL(r) ==
    IF r.URL.Blank THEN "ErrEmptyURL"
    ELSE IF r.URL.ParseErr THEN "ErrInvalidURL"
    ELSE IF r.URL.Scheme # "http" /\ r.URL.Scheme # "https" THEN "ErrInvalidURL"
    ELSE IF r.URL.Host = "" THEN "ErrInvalidURL"
    ELSE Nil

\* Request.ValidateHeaders
ValidateHeaders(r) ==
    IF \E name \in DOMAIN r.Headers :
          TrimSpace(name) = <<>> \/ ContainsAny(name, {":", "\n", "\r"})
    THEN "ErrInvalidHeaderName"
    ELSE Nil

\* Request.ValidateQueryParams
ValidateQueryParams(r) ==
    IF \E name \in DOMAIN r.QueryParams : TrimSpace(name) = <<>>
    THEN "ErrInvalidQueryParam"
    ELSE Nil

\* Request.Validate with the URL checked before the method.
RequestValidateURLFirst(r) ==
    IF ValidateURL(r) # Nil THEN ValidateURL(r)
    ELSE IF ValidateMethod(r) # Nil THEN ValidateMethod(r)
    ELSE IF ValidateHeaders(r) # Nil THEN ValidateHeaders(r)
    ELSE IF ValidateQueryParams(r) # Nil THEN ValidateQueryParams(r)
    ELSE IF r.AuthConfig # NilAuth /\ AuthValidate(r.AuthConfig) # Nil
         THEN AuthValidate(r.AuthConfig)
    ELSE Nil

\* Request.Validate
RequestValidate(r) ==
    IF ValidateMethod(r) # Nil THEN ValidateMethod(r)
    ELSE IF ValidateURL(r) # Nil THEN ValidateURL(r)
    ELSE IF ValidateHeaders(r) # Nil THEN ValidateHeaders(r)
    ELSE IF ValidateQueryParams(r) # Nil THEN ValidateQueryParams(r)
    ELSE IF r.AuthConfig # NilAuth /\ AuthValidate(r.AuthConfig) # Nil
         THEN AuthValidate(r.AuthConfig)
    ELSE Nil

\* IsBodyAllowed with the method compared as written, without strings.ToUpper.
IsBodyAllowedAsWritten(r) == r.Method \in {MethodPost, MethodPut, MethodPatch}

\* Request.IsBodyAllowed
IsBodyAllowed(r) == ToUpper(r.Method) \in {MethodPost, MethodPut, MethodPatch}

(***************************************************************************)
(* The execution engine (httpClient).                                      *)
(***************************************************************************)
\* httpClient.buildURL: the error and the wire URL.  Without request query
\* parameters the parsed URL is returned as it is; otherwise each request
\* parameter is Set into the URL's own query.
RECURSIVE SetAll(_, _, _)
SetAll(query, params, names) ==
    IF names = {} THEN query
    ELSE LET k == CHOOSE n \in names : TRUE
         IN SetAll(ValuesSet(query, k, params[k]), params, names \ {k})

NoURL == [Scheme |-> "", Host |-> "", Path |-> "", Query |-> <<>>, Fragment |-> ""]

\* buildURL with the URL's own keys kept: a request parameter is set only
\* when the URL does not name it.
BuildURLKeepsOwnKeys(r) ==
    IF r.URL.ParseErr THEN [err |-> "failed to parse URL", url |-> NoURL]
    ELSE [err |-> Nil,
          url |-> [Scheme |-> r.URL.Scheme, Host |-> r.URL.Host, Path |-> r.URL.Path,
                   Query |-> SetAll(r.URL.Query, r.QueryParams,
                                    DOMAIN r.QueryParams \ DOMAIN r.URL.Query),
                   Fragment |-> r.URL.Fragment]]

BuildURL(r) ==
    IF r.URL.ParseErr THEN [err |-> "failed to parse URL", url |-> NoURL]
    ELSE [err |-> Nil,
          url |-> [Scheme |-> r.URL.Scheme, Host |-> r.URL.Host, Path |-> r.URL.Path,
                   Query |-> IF DOMAIN r.QueryParams = {} THEN r.URL.Query
                             ELSE SetAll(r.URL.Query, r.QueryParams, DOMAIN r.QueryParams),
                   Fragment |-> r.URL.Fragment]]

\* The loop of buildHTTPRequest that copies the request's headers onto the wire
\* request with Header.Set.
RECURSIVE CopyHeaders(_, _, _)
CopyHeaders(header, headers, names) ==
    IF names = {} THEN header
    ELSE LET k == CHOOSE n \in names : TRUE
         IN CopyHeaders(HeaderSet(header, k, headers[k]), headers, names \ {k})

EmptyWire ==
    [Method |-> <<>>, URL |-> NoURL, Header |-> <<>>, HasBody |-> FALSE, ContentLength |-> 0]

\* httpClient.buildHTTPRequest: the error and the wire request.
\* http.NewRequestWithContext rejects a method that is no token.
BuildHTTPRequest(r) ==
    LET u == BuildURL(r)
        withBody == r.Body # <<>> /\ IsBodyAllowed(r)
    IN IF u.err # Nil THEN [err |-> u.err, wire |-> EmptyWire]
       ELSE IF \E i \in 1..Len(r.Method) : ~IsTokenChar(r.Method[i])
            THEN [err |-> "failed to create HTTP request", wire |-> EmptyWire]
       ELSE [err |-> Nil,
             wire |-> [Method |-> ToUpper(r.Method),
                       URL |-> u.url,
                       Header |-> CopyHeaders(<<>>, r.Headers, DOMAIN r.Headers),
                       HasBody |-> withBody,
                       ContentLength |-> IF withBody THEN Len(r.Body) ELSE 0]]

\* CheckRedirect with the count of requests kept in one counter of the client,
\* which every call in flight adds to, instead of the call's own via.
CheckRedirectSharedCount(cfg, viaLen) ==
    LET total == via["c1"] + via["c2"]
    IN IF ~cfg.FollowRedirects THEN "ErrUseLastResponse"
       ELSE IF total >= cfg.MaxRedirects THEN "stopped after redirects"
       ELSE Nil

\* CheckRedirect with the count compared before FollowRedirects is looked at.
CheckRedirectMaxFirst(cfg, viaLen) ==
    IF viaLen >= cfg.MaxRedirects THEN "stopped after redirects"
    ELSE IF ~cfg.FollowRedirects THEN "ErrUseLastResponse"
    ELSE Nil

\* The redirect policy NewClient installs (checkRedirect).  viaLen is len(via):
\* the number of requests this call has already made.
CheckRedirect(cfg, viaLen) ==
    IF ~cfg.FollowRedirects THEN "ErrUseLastResponse"
    ELSE IF viaLen >= cfg.MaxRedirects THEN "stopped after redirects"
    ELSE Nil

\* What handleRequestError looks at in the error client.Do returned:
\* errors.Is(err, context.Canceled), errors.Is(err, context.DeadlineExceeded),
\* errors.As(err, *url.Error), urlErr.Timeout(), urlErr.Temporary(),
\* errors.As(urlErr.Err, *net.DNSError), errors.As(urlErr.Err, *net.OpError).
TransportErr(canceled, deadline, timeout, temporary, dns, opErr) ==
    [IsCanceled |-> canceled, IsDeadline |-> deadline, IsURLError |-> TRUE,
     Timeout |-> timeout, Temporary |-> temporary, IsDNS |-> dns, IsOp |-> opErr]

\* The errors client.Do returns, by cause.
\*   ctxCanceled      the context was cancelled
\*   ctxCanceledDial  the context was cancelled while dialling (a net.OpError)
\*   ctxDeadline      the context's deadline passed (context.DeadlineExceeded
\*                    reports Timeout() and Temporary())
\*   clientTimeout    Config.Timeout passed (http.Client.Timeout)
\*   dns              the host did not resolve
\*   refused          the connection was refused
\*   temporary        a temporary network condition
\*   protocol         a malformed response
\*   redirectPolicy   checkRedirect returned its error
DoError(cause) ==
    CASE cause = "ctxCanceled" -> TransportErr(TRUE, FALSE, FALSE, FALSE, FALSE, FALSE)
      [] cause = "ctxCanceledDial" -> TransportErr(TRUE, FALSE, FALSE, FALSE, FALSE, TRUE)
      [] cause = "ctxDeadline" -> TransportErr(FALSE, TRUE, TRUE, TRUE, FALSE, FALSE)
      [] cause = "clientTimeout" -> TransportErr(FALSE, FALSE, TRUE, TRUE, FALSE, FALSE)
      [] cause = "dns" -> TransportErr(FALSE, FALSE, FALSE, FALSE, TRUE, TRUE)
      [] cause = "refused" -> TransportErr(FALSE, FALSE, FALSE, FALSE, FALSE, TRUE)
      [] cause = "temporary" -> TransportErr(FALSE, FALSE, FALSE, TRUE, FALSE, TRUE)
      [] cause = "protocol" -> TransportErr(FALSE, FALSE, FALSE, FALSE, FALSE, FALSE)
      [] cause = "redirectPolicy" -> TransportErr(FALSE, FALSE, FALSE, FALSE, FALSE, FALSE)

\* handleRequestError without its first check, errors.Is(err, context.Canceled).
HandleRequestErrorNoCancelCheck(err) ==
    IF err.IsDeadline THEN "request timeout"
    ELSE IF err.IsURLError /\ err.Timeout THEN "request timeout"
    ELSE IF err.IsURLError /\ err.Temporary THEN "temporary network error"
    ELSE IF err.IsURLError /\ err.IsDNS THEN "DNS lookup failed"
    ELSE IF err.IsURLError /\ err.IsOp THEN "connection failed"
    ELSE "request failed"

\* handleRequestError with urlErr.Temporary() asked before urlErr.Timeout().
HandleRequestErrorTemporaryFirst(err) ==
    IF err.IsCanceled THEN "request canceled"
    ELSE IF err.IsDeadline THEN "request timeout"
    ELSE IF err.IsURLError /\ err.Temporary THEN "temporary network error"
    ELSE IF err.IsURLError /\ err.Timeout THEN "request timeout"
    ELSE IF err.IsURLError /\ err.IsDNS THEN "DNS lookup failed"
    ELSE IF err.IsURLError /\ err.IsOp THEN "connection failed"
    ELSE "request failed"

\* httpClient.handleRequestError: the kind of the error Execute returns, named
\* by the prefix of its message.
HandleRequestError(err) ==
    IF err.IsCanceled THEN "request canceled"
    ELSE IF err.IsDeadline THEN "request timeout"
    ELSE IF err.IsURLError /\ err.Timeout THEN "request timeout"
    ELSE IF err.IsURLError /\ err.Temporary THEN "temporary network error"
    ELSE IF err.IsURLError /\ err.IsDNS THEN "DNS lookup failed"
    ELSE IF err.IsURLError /\ err.IsOp THEN "connection failed"
    ELSE "request failed"

\* The format of the message of each error Execute returns: its fixed text and
\* the values put into it (%w is the wrapped error).
ErrorMessage(kind) ==
    CASE kind = "request canceled" -> <<"request canceled: ", "%w">>
      [] kind = "request timeout" -> <<"request timeout after ", "%v duration", ": ", "%w">>
      [] kind = "temporary network error" -> <<"temporary network error: ", "%w">>
      [] kind = "DNS lookup failed" ->
            <<"DNS lookup failed for ", "%s dnsErr.Name", ": ", "%w">>
      [] kind = "connection failed" -> <<"connection failed: ", "%s opErr.Op", ": ", "%w">>
      [] kind = "request failed" -> <<"request failed: ", "%w">>
      [] kind = "failed to process response" -> <<"failed to process response: ", "%w">>
      [] kind = "invalid request" -> <<"invalid request: ", "%w">>
      [] kind = "failed to build HTTP request" -> <<"failed to build HTTP request: ", "%w">>
      [] kind = "failed to apply authentication" ->
            <<"failed to apply authentication: ", "%w">>

\* The error carries the elapsed duration of the call.
CarriesDuration(kind) ==
    \E i \in 1..Len(ErrorMessage(kind)) : ErrorMessage(kind)[i] = "%v duration"

\* The value Execute returns: a Response (err = Nil) or an error of a kind.
\* cause is the wrapped error: a validation or auth sentinel, or the cause of
\* the transport's error.
NoResult ==
    [returned |-> FALSE, err |-> Nil, cause |-> Nil, StatusCode |-> 0, RequestID |-> ""]
ErrorResult(kind, cause) ==
    [returned |-> TRUE, err |-> kind, cause |-> cause, StatusCode |-> 0, RequestID |-> ""]
ResponseResult(status, requestID) ==
    [returned |-> TRUE, err |-> Nil, cause |-> Nil, StatusCode |-> status,
     RequestID |-> requestID]

\* Execute with the request validated only after client.Do has returned.
ExecuteStepsValidateLate == <<"build", "auth", "do", "validate", "convert">>

\* The statements of Execute, in order: req.Validate, buildHTTPRequest,
\* AuthConfig.Apply, client.Do, buildDomainResponse.
ExecuteSteps == <<"validate", "build", "auth", "do", "convert">>

(***************************************************************************)
(* Inputs.                                                                 *)
(***************************************************************************)
Empty == <<>>
Blank == <<" ">>

URLValue(blank, parseErr, scheme, host, query) ==
    [Blank |-> blank, ParseErr |-> parseErr, Scheme |-> scheme, Host |-> host,
     Path |-> "/p", Query |-> query, Fragment |-> ""]

GoodURL == URLValue(FALSE, FALSE, "http", "h", <<>>)
QueryURL == URLValue(FALSE, FALSE, "https", "h", <<"k">> :> << <<"1">> >>)
BlankURL == URLValue(TRUE, FALSE, "", "", <<>>)
UnparsableURL == URLValue(FALSE, TRUE, "", "", <<>>)
FtpURL == URLValue(FALSE, FALSE, "ftp", "h", <<>>)
NoHostURL == URLValue(FALSE, FALSE, "http", "", <<>>)

NewRequest(id, method, url, headers, params, body, auth) ==
    [ID |-> id, Method |-> method, URL |-> url, Headers |-> headers,
     QueryParams |-> params, Body |-> body, AuthConfig |-> auth]

NoMap == <<>>
OneHeader == <<"a","c","c","e","p","t">> :> <<"j">>

\* The requests the callers of the engine pass.
ExecRequests ==
    { NewRequest("r1", MethodGet, GoodURL, NoMap, NoMap, Empty, NoAuth),
      NewRequest("r2", <<"p","o","s","t">>, QueryURL, OneHeader, <<"k">> :> <<"2">>, <<"b">>,
                 BasicAuth(<<"u">>, <<"p">>)),
      NewRequest("r1", <<"B","O","G","U","S">>, GoodURL, NoMap, NoMap, Empty, NoAuth),
      NewRequest("r2", MethodGet, GoodURL, NoMap, NoMap, Empty, BearerAuth(Blank)),
      NewRequest("", MethodGet, GoodURL, NoMap, NoMap, Empty, NilAuth) }

Configs == [FollowRedirects : BOOLEAN, MaxRedirects : 0..MaxRedirectsBound]

(***************************************************************************)
(* httpClient.Execute, statement by statement.                             *)
(***************************************************************************)
Append1(f, c, x) == [f EXCEPT ![c] = Append(@, x)]

Running(c) == step[c] >= 1 /\ ~result[c].returned
Cur(c) == ExecuteSteps[step[c]]

\* The call returns the error.
ReturnError(c, kind, cause) ==
    /\ result' = [result EXCEPT ![c] = ErrorResult(kind, cause)]
    /\ step' = step

\* The statement is done: the next one runs, and after the last one Execute
\* returns the Response.
Advance(c, status) ==
    IF step[c] = Len(ExecuteSteps)
    THEN /\ result' = [result EXCEPT ![c] = ResponseResult(status, req[c].ID)]
         /\ step' = step
    ELSE /\ step' = [step EXCEPT ![c] = @ + 1]
         /\ result' = result

\* A caller calls client.Execute(ctx, req).
CallExecute(c) ==
    /\ op[c] = "Execute"
    /\ step[c] = 0
    /\ step' = [step EXCEPT ![c] = 1]
    /\ ctxAtCall' = [ctxAtCall EXCEPT ![c] = ctx[c]]
    /\ UNCHANGED <<config, op, req, ctx, inDo, wire, via, seen, doCalls, netStarted,
                   trace, awaiting, httpStatus, result>>
    /\ UNCHANGED <<saveVars, authVars, valVars, repoVars, cloneVars, restVars>>

\* if err := req.Validate(); err != nil { return ... "invalid request" }
ExecValidate(c) ==
    /\ Running(c)
    /\ Cur(c) = "validate"
    /\ IF RequestValidate(req[c]) # Nil
       THEN ReturnError(c, "invalid request", RequestValidate(req[c]))
       ELSE Advance(c, httpStatus[c])
    /\ UNCHANGED <<config, op, req, ctx, ctxAtCall, inDo, wire, via, seen, doCalls,
                   netStarted, trace, awaiting, httpStatus>>
    /\ UNCHANGED <<saveVars, authVars, valVars, repoVars, cloneVars, restVars>>

\* httpReq, err := c.buildHTTPRequest(ctx, req)
ExecBuild(c) ==
    /\ Running(c)
    /\ Cur(c) = "build"
    /\ LET b == BuildHTTPRequest(req[c])
       IN IF b.err # Nil
          THEN /\ ReturnError(c, "failed to build HTTP request", b.err)
               /\ wire' = wire
          ELSE /\ Advance(c, httpStatus[c])
               /\ wire' = [wire EXCEPT ![c] = b.wire]
    /\ UNCHANGED <<config, op, req, ctx, ctxAtCall, inDo, via, seen, doCalls,
                   netStarted, trace, awaiting, httpStatus>>
    /\ UNCHANGED <<saveVars, authVars, valVars, repoVars, cloneVars, restVars>>

\* if req.AuthConfig != nil { if err := req.AuthConfig.Apply(httpReq); ... }
ExecAuth(c) ==
    /\ Running(c)
    /\ Cur(c) = "auth"
    /\ IF req[c].AuthConfig = NilAuth
       THEN /\ Advance(c, httpStatus[c])
            /\ wire' = wire
       ELSE LET a == AuthApply(req[c].AuthConfig, wire[c])
            IN IF a.err # Nil
               THEN /\ ReturnError(c, "failed to apply authentication", a.err)
                    /\ wire' = [wire EXCEPT ![c] = a.wire]
               ELSE /\ Advance(c, httpStatus[c])
                    /\ wire' = [wire EXCEPT ![c] = a.wire]
    /\ UNCHANGED <<config, op, req, ctx, ctxAtCall, inDo, via, seen, doCalls,
                   netStarted, trace, awaiting, httpStatus>>
    /\ UNCHANGED <<saveVars, authVars, valVars, repoVars, cloneVars, restVars>>

\* httpResp, err := c.client.Do(httpReq): the call is made.
ExecDo(c) ==
    /\ Running(c)
    /\ Cur(c) = "do"
    /\ ~inDo[c]
    /\ doCalls[c] = 0
    /\ doCalls' = [doCalls EXCEPT ![c] = @ + 1]
    /\ inDo' = [inDo EXCEPT ![c] = TRUE]
    /\ UNCHANGED <<config, op, req, ctx, ctxAtCall, step, wire, via, seen, netStarted,
                   trace, awaiting, httpStatus, result>>
    /\ UNCHANGED <<saveVars, authVars, valVars, repoVars, cloneVars, restVars>>

\* The error of client.Do for a context that is done.
CtxCause(state, dialing) ==
    IF state = "deadline" THEN {"ctxDeadline"}
    ELSE IF dialing THEN {"ctxCanceled", "ctxCanceledDial"}
    ELSE {"ctxCanceled"}

\* client.Do returns the error to Execute, which returns
\* c.handleRequestError(err, duration, startTime).  seenByCall is what the call
\* met: the context's error, the fault, or the redirect response.
DoFails(c, cause, seenByCall) ==
    /\ trace' = Append1(trace, c, seenByCall)
    /\ inDo' = [inDo EXCEPT ![c] = FALSE]
    /\ awaiting' = [awaiting EXCEPT ![c] = FALSE]
    /\ ReturnError(c, HandleRequestError(DoError(cause)), cause)

\* The transport starts a round trip: it returns the context's error when the
\* context is done, before anything is sent; otherwise it sends the request.
RoundTripSend(c) ==
    /\ Running(c)
    /\ inDo[c]
    /\ ~awaiting[c]
    /\ IF ctx[c] # "live"
       THEN /\ \E cause \in CtxCause(ctx[c], FALSE) : DoFails(c, cause, cause)
            /\ UNCHANGED <<via, netStarted>>
       ELSE /\ trace' = Append1(trace, c, "sent")
            /\ awaiting' = [awaiting EXCEPT ![c] = TRUE]
            /\ via' = [via EXCEPT ![c] = @ + 1]
            /\ netStarted' = [netStarted EXCEPT ![c] = TRUE]
            /\ UNCHANGED <<inDo, step, result>>
    /\ UNCHANGED <<config, op, req, ctx, ctxAtCall, wire, seen, doCalls, httpStatus>>
    /\ UNCHANGED <<saveVars, authVars, valVars, repoVars, cloneVars, restVars>>

\* What can end a round trip whose context is live.
TransportFaults == {"clientTimeout", "dns", "refused", "temporary", "protocol"}

\* client.Do returns the response to Execute.
DoReturns(c, status) ==
    /\ inDo' = [inDo EXCEPT ![c] = FALSE]
    /\ awaiting' = [awaiting EXCEPT ![c] = FALSE]
    /\ httpStatus' = [httpStatus EXCEPT ![c] = status]
    /\ Advance(c, status)

\* The round trip ends: with the context's error when the context is done, with
\* a transport fault, with a final response, or with a redirect response, on
\* which client.Do asks checkRedirect.
RoundTripEnd(c) ==
    /\ Running(c)
    /\ inDo[c]
    /\ awaiting[c]
    /\ IF ctx[c] # "live"
       THEN /\ \E cause \in CtxCause(ctx[c], TRUE) : DoFails(c, cause, cause)
            /\ UNCHANGED <<seen, httpStatus>>
       ELSE \E o \in TransportFaults \cup {"final", "redirect"} :
              IF o \in TransportFaults
              THEN /\ DoFails(c, o, o)
                   /\ UNCHANGED <<seen, httpStatus>>
              ELSE IF o = "final"
              THEN /\ trace' = Append1(trace, c, o)
                   /\ DoReturns(c, 200)
                   /\ UNCHANGED seen
              ELSE /\ seen[c] < MaxChain
                   /\ seen' = [seen EXCEPT ![c] = @ + 1]
                   /\ LET cr == CheckRedirect(config, via[c])
                      IN IF cr = "ErrUseLastResponse"
                         THEN /\ trace' = Append1(trace, c, o)
                              /\ DoReturns(c, 302)
                         ELSE IF cr # Nil
                         THEN /\ DoFails(c, "redirectPolicy", o)
                              /\ UNCHANGED httpStatus
                         ELSE /\ trace' = Append1(trace, c, o)
                              /\ awaiting' = [awaiting EXCEPT ![c] = FALSE]
                              /\ UNCHANGED <<inDo, step, result, httpStatus>>
    /\ UNCHANGED <<config, op, req, ctx, ctxAtCall, wire, via, doCalls, netStarted>>
    /\ UNCHANGED <<saveVars, authVars, valVars, repoVars, cloneVars, restVars>>

\* resp, err := c.buildDomainResponse(...): io.ReadAll reads the body from the
\* connection, which fails when the connection fails and, unless the body has
\* already arrived, when the context is done.
ExecConvert(c) ==
    /\ Running(c)
    /\ Cur(c) = "convert"
    /\ \E o \in IF ctx[c] = "live" THEN {"bodyRead", "readError"}
                ELSE {"bodyRead"} \cup CtxCause(ctx[c], FALSE) :
         /\ trace' = Append1(trace, c, o)
         /\ IF o = "bodyRead"
            THEN Advance(c, httpStatus[c])
            ELSE ReturnError(c, "failed to process response", o)
    /\ UNCHANGED <<config, op, req, ctx, ctxAtCall, inDo, wire, via, seen, doCalls,
                   netStarted, awaiting, httpStatus>>
    /\ UNCHANGED <<saveVars, authVars, valVars, repoVars, cloneVars, restVars>>

(***************************************************************************)
(* RequestService.ExecuteAndSave and the stores behind it.                 *)
(***************************************************************************)
\* The statements of ExecuteAndSave, in order: req.Validate,
\* httpClient.Execute, historyRepo.Save, the final return.
ExecuteAndSaveSteps == <<"validate", "execute", "save", "return">>

SvReturned == Len(ExecuteAndSaveSteps) + 1
SvRunning(c) == svStep[c] >= 1 /\ svStep[c] < SvReturned
SvCur(c) == ExecuteAndSaveSteps[svStep[c]]

\* The operation of caller c has returned.
Finished(c) ==
    \/ op[c] = "Execute" /\ result[c].returned
    \/ op[c] = "ExecuteAndSave" /\ svStep[c] = SvReturned

\* The HistoryEntry ExecuteAndSave builds from the outcome of Execute.  ID is
\* a fresh uuid: one per call.
NewHistoryEntry(c, r, res) ==
    [ID |-> c, RequestID |-> r.ID,
     StatusCode |-> IF res.err # Nil THEN 0 ELSE res.StatusCode,
     Error |-> IF res.err # Nil THEN res.err ELSE ""]

\* HistoryRepository.Save: the INSERT into history.  ExecContext returns the
\* context's error when the context is done; request_id is NULL for an empty
\* RequestID (nullString) and must otherwise name a row of requests (FOREIGN
\* KEY (request_id) REFERENCES requests(id), with PRAGMA foreign_keys = ON).
HistorySave(rows, context, entry) ==
    IF context # "live" THEN "failed to save history entry: context done"
    ELSE IF entry.RequestID # "" /\ entry.RequestID \notin rows
         THEN "failed to save history entry: FOREIGN KEY constraint failed"
    ELSE Nil

\* A caller calls requestService.ExecuteAndSave(ctx, req).
CallExecuteAndSave(c) ==
    /\ op[c] = "ExecuteAndSave"
    /\ svStep[c] = 0
    /\ svStep' = [svStep EXCEPT ![c] = 1]
    /\ UNCHANGED <<svResult, saveAttempts, saveErr, savedAfter, requests, history>>
    /\ UNCHANGED <<execVars, authVars, valVars, repoVars, cloneVars, restVars>>

\* SvValidate with the validation error dropped: the call goes on.
SvValidateIgnored(c) ==
    /\ SvRunning(c)
    /\ SvCur(c) = "validate"
    /\ svStep' = [svStep EXCEPT ![c] = @ + 1]
    /\ svResult' = svResult
    /\ UNCHANGED <<saveAttempts, saveErr, savedAfter, requests, history>>
    /\ UNCHANGED <<execVars, authVars, valVars, repoVars, cloneVars, restVars>>

\* if err := req.Validate(); err != nil { return nil, "invalid request" }
SvValidate(c) ==
    /\ SvRunning(c)
    /\ SvCur(c) = "validate"
    /\ IF RequestValidate(req[c]) # Nil
       THEN /\ svResult' = [svResult EXCEPT ![c] =
                              ErrorResult("invalid request", RequestValidate(req[c]))]
            /\ svStep' = [svStep EXCEPT ![c] = SvReturned]
       ELSE /\ svStep' = [svStep EXCEPT ![c] = @ + 1]
            /\ svResult' = svResult
    /\ UNCHANGED <<saveAttempts, saveErr, savedAfter, requests, history>>
    /\ UNCHANGED <<execVars, authVars, valVars, repoVars, cloneVars, restVars>>

\* resp, err := s.httpClient.Execute(ctx, req): the call is made.
SvExecute(c) ==
    /\ SvRunning(c)
    /\ SvCur(c) = "execute"
    /\ step[c] = 0
    /\ step' = [step EXCEPT ![c] = 1]
    /\ ctxAtCall' = [ctxAtCall EXCEPT ![c] = ctx[c]]
    /\ UNCHANGED <<config, op, req, ctx, inDo, wire, via, seen, doCalls, netStarted,
                   trace, awaiting, httpStatus, result>>
    /\ UNCHANGED <<saveVars, authVars, valVars, repoVars, cloneVars, restVars>>

\* Execute has returned resp, err to ExecuteAndSave.
SvExecuteReturns(c) ==
    /\ SvRunning(c)
    /\ SvCur(c) = "execute"
    /\ result[c].returned
    /\ svStep' = [svStep EXCEPT ![c] = @ + 1]
    /\ UNCHANGED <<svResult, saveAttempts, saveErr, savedAfter, requests, history>>
    /\ UNCHANGED <<execVars, authVars, valVars, repoVars, cloneVars, restVars>>

\* SvSave with the history entry saved only when Execute returned no error.
SvSaveOnlyOnSuccess(c) ==
    /\ SvRunning(c)
    /\ SvCur(c) = "save"
    /\ LET entry == NewHistoryEntry(c, req[c], result[c])
           e == HistorySave(requests, ctx[c], entry)
       IN IF result[c].err # Nil
          THEN UNCHANGED <<saveAttempts, savedAfter, saveErr, history>>
          ELSE /\ saveAttempts' = [saveAttempts EXCEPT ![c] = @ + 1]
               /\ savedAfter' = [savedAfter EXCEPT ![c] = result[c].returned]
               /\ saveErr' = [saveErr EXCEPT ![c] = e]
               /\ history' = IF e = Nil THEN history \cup {entry} ELSE history
    /\ svStep' = [svStep EXCEPT ![c] = @ + 1]
    /\ UNCHANGED <<svResult, requests>>
    /\ UNCHANGED <<execVars, authVars, valVars, repoVars, cloneVars, restVars>>

\* The entry is built and s.historyRepo.Save(ctx, historyEntry) is called; its
\* error is logged.
SvSave(c) ==
    /\ SvRunning(c)
    /\ SvCur(c) = "save"
    /\ LET entry == NewHistoryEntry(c, req[c], result[c])
           e == HistorySave(requests, ctx[c], entry)
       IN /\ saveAttempts' = [saveAttempts EXCEPT ![c] = @ + 1]
          /\ savedAfter' = [savedAfter EXCEPT ![c] = result[c].returned]
          /\ saveErr' = [saveErr EXCEPT ![c] = e]
          /\ history' = IF e = Nil THEN history \cup {entry} ELSE history
    /\ svStep' = [svStep EXCEPT ![c] = @ + 1]
    /\ UNCHANGED <<svResult, requests>>
    /\ UNCHANGED <<execVars, authVars, valVars, repoVars, cloneVars, restVars>>

\* SvReturn with the error of historyRepo.Save returned to the caller.
SvReturnSaveError(c) ==
    /\ SvRunning(c)
    /\ SvCur(c) = "return"
    /\ svResult' = [svResult EXCEPT ![c] =
                      IF saveErr[c] # Nil
                      THEN ErrorResult("failed to save execution to history", saveErr[c])
                      ELSE IF result[c].err # Nil
                      THEN ErrorResult("failed to execute request", result[c].err)
                      ELSE result[c]]
    /\ svStep' = [svStep EXCEPT ![c] = SvReturned]
    /\ UNCHANGED <<saveAttempts, saveErr, savedAfter, requests, history>>
    /\ UNCHANGED <<execVars, authVars, valVars, repoVars, cloneVars, restVars>>

\* if err != nil { return nil, "failed to execute request: %w" }; return resp, nil
SvReturn(c) ==
    /\ SvRunning(c)
    /\ SvCur(c) = "return"
    /\ svResult' = [svResult EXCEPT ![c] =
                      IF result[c].err # Nil
                      THEN ErrorResult("failed to execute request", result[c].err)
                      ELSE result[c]]
    /\ svStep' = [svStep EXCEPT ![c] = SvReturned]
    /\ UNCHANGED <<saveAttempts, saveErr, savedAfter, requests, history>>
    /\ UNCHANGED <<execVars, authVars, valVars, repoVars, cloneVars, restVars>>

\* RequestService.SaveRequest(ctx, req) for the request of caller c, with a
\* context of its own: a valid request is created in the requests table, or
\* updated when a row with its id is there.
SaveRequest(c) ==
    /\ RequestValidate(req[c]) = Nil
    /\ req[c].ID \notin requests
    /\ requests' = requests \cup {req[c].ID}
    /\ UNCHANGED <<svStep, svResult, saveAttempts, saveErr, savedAfter, history>>
    /\ UNCHANGED <<execVars, authVars, valVars, repoVars, cloneVars, restVars>>

(***************************************************************************)
(* The callers' contexts.                                                  *)
(***************************************************************************)
\* The caller cancels its context.
CancelCtx(c) ==
    /\ ~Finished(c)
    /\ ctx[c] = "live"
    /\ ctx' = [ctx EXCEPT ![c] = "canceled"]
    /\ UNCHANGED <<config, op, req, ctxAtCall, step, inDo, wire, via, seen, doCalls,
                   netStarted, trace, awaiting, httpStatus, result>>
    /\ UNCHANGED <<saveVars, authVars, valVars, repoVars, cloneVars, restVars>>

\* The deadline of the caller's context passes.
ExpireCtx(c) ==
    /\ ~Finished(c)
    /\ ctx[c] = "live"
    /\ ctx' = [ctx EXCEPT ![c] = "deadline"]
    /\ UNCHANGED <<config, op, req, ctxAtCall, step, inDo, wire, via, seen, doCalls,
                   netStarted, trace, awaiting, httpStatus, result>>
    /\ UNCHANGED <<saveVars, authVars, valVars, repoVars, cloneVars, restVars>>

(***************************************************************************)
(* The requests table (RequestRepository): auth strategies are stored as a *)
(* discriminator (auth_type) and a JSON object (auth_config).              *)
(* A JSON object is kept as the mapping from its keys to the JSON text of  *)
(* their string values; the text of a string is computed character by      *)
(* character as encoding/json writes and reads it.                         *)
(***************************************************************************)
\* A byte that is no valid UTF-8, and the rune U+FFFD that encoding/json puts in
\* its place.
InvalidByte == "xFF"
ReplacementRune == "uFFFD"

\* json.Marshal of one character of a string (HTML escaping is on).
EncodeChar(ch) ==
    CASE ch = "\"" -> <<"\\", "\"">>
      [] ch = "\\" -> <<"\\", "\\">>
      [] ch = "\n" -> <<"\\", "n">>
      [] ch = "<" -> <<"\\", "u", "0", "0", "3", "c">>
      [] ch = InvalidByte -> <<"\\", "u", "f", "f", "f", "d">>
      [] OTHER -> <<ch>>

RECURSIVE EncodeChars(_)
EncodeChars(str) ==
    IF str = <<>> THEN <<>> ELSE EncodeChar(Head(str)) \o EncodeChars(Tail(str))

\* json.Marshal of a string: the quoted text.
JSONString(str) == <<"\"">> \o EncodeChars(str) \o <<"\"">>

\* The rune a \uXXXX escape names, among those written.
RuneOf(hex) ==
    CASE hex = <<"0", "0", "3", "c">> -> "<"
      [] hex = <<"f", "f", "f", "d">> -> ReplacementRune
      [] OTHER -> ReplacementRune

\* json.Unmarshal of the inside of a quoted text, from position i.
RECURSIVE DecodeChars(_, _)
DecodeChars(text, i) ==
    IF i > Len(text) THEN <<>>
    ELSE IF text[i] = "\\" /\ i + 1 <= Len(text)
    THEN IF text[i + 1] = "u" /\ i + 5 <= Len(text)
         THEN <<RuneOf(SubSeq(text, i + 2, i + 5))>> \o DecodeChars(text, i + 6)
         ELSE <<(IF text[i + 1] = "n" THEN "\n" ELSE text[i + 1])>>
              \o DecodeChars(text, i + 2)
    ELSE <<(IF text[i] = InvalidByte THEN ReplacementRune ELSE text[i])>>
         \o DecodeChars(text, i + 1)

\* json.Unmarshal of a quoted text into a string.
JSONUnquote(text) == DecodeChars(SubSeq(text, 2, Len(text) - 1), 1)

\* A JSON object of string values, and a text that is no JSON.
JSONObject(fields) == [WellFormed |-> TRUE, Fields |-> fields]
MalformedJSON == [WellFormed |-> FALSE, Fields |-> <<>>]

\* The value json.Unmarshal stores in a string field of the target struct: the
\* zero value when the object has no such key.
FieldOf(obj, name) ==
    IF name \in DOMAIN obj.Fields THEN JSONUnquote(obj.Fields[name]) ELSE <<>>

\* An APIKeyLocation is a string of letters, which JSON writes as they are: it
\* is carried as one unit.
LocationOf(str) == IF str = <<>> THEN "" ELSE str[1]

\* serializeAuthConfig
SerializeAuthConfig(a) ==
    CASE a.Type = "nil" -> JSONObject(<<>>)
      [] a.Type = "none" -> JSONObject(<<>>)
      [] a.Type = "basic" ->
            JSONObject("username" :> JSONString(a.Username)
                       @@ "password" :> JSONString(a.Password))
      [] a.Type = "bearer" -> JSONObject("token" :> JSONString(a.Token))
      [] a.Type = "apikey" ->
            JSONObject("key" :> JSONString(a.Key) @@ "value" :> JSONString(a.Value)
                       @@ "location" :> JSONString(<<a.Location>>))

\* deserializeAuthConfig with a default branch that returns the no-auth variant.
DeserializeAuthConfigDefaultNone(authType, configJSON) ==
    IF authType \in {"basic", "bearer", "apikey"} /\ ~configJSON.WellFormed
    THEN [err |-> "failed to unmarshal auth", auth |-> NilAuth]
    ELSE IF authType = "basic"
    THEN [err |-> Nil,
          auth |-> BasicAuth(FieldOf(configJSON, "username"),
                             FieldOf(configJSON, "password"))]
    ELSE IF authType = "bearer"
    THEN [err |-> Nil, auth |-> BearerAuth(FieldOf(configJSON, "token"))]
    ELSE IF authType = "apikey"
    THEN [err |-> Nil,
          auth |-> APIKeyAuth(FieldOf(configJSON, "key"), FieldOf(configJSON, "value"),
                              LocationOf(FieldOf(configJSON, "location")))]
    ELSE [err |-> Nil, auth |-> NoAuth]

\* deserializeAuthConfig: the error and the strategy.
DeserializeAuthConfig(authType, configJSON) ==
    IF authType \in {"", "none"} THEN [err |-> Nil, auth |-> NoAuth]
    ELSE IF authType \in {"basic", "bearer", "apikey"} /\ ~configJSON.WellFormed
    THEN [err |-> "failed to unmarshal auth", auth |-> NilAuth]
    ELSE IF authType = "basic"
    THEN [err |-> Nil,
          auth |-> BasicAuth(FieldOf(configJSON, "username"),
                             FieldOf(configJSON, "password"))]
    ELSE IF authType = "bearer"
    THEN [err |-> Nil, auth |-> BearerAuth(FieldOf(configJSON, "token"))]
    ELSE IF authType = "apikey"
    THEN [err |-> Nil,
          auth |-> APIKeyAuth(FieldOf(configJSON, "key"), FieldOf(configJSON, "value"),
                              LocationOf(FieldOf(configJSON, "location")))]
    ELSE [err |-> "unknown auth type", auth |-> NilAuth]

\* The auth_type column Create and Update write: "" for a nil AuthConfig.
AuthTypeOf(a) == IF a = NilAuth THEN "" ELSE a.Type

\* The row Create inserts for a request (its auth columns).
RowOf(r) == [auth_type |-> AuthTypeOf(r.AuthConfig),
             auth_config |-> SerializeAuthConfig(r.AuthConfig)]

\* An auth_type column that holds NULL (the column is nullable; Create and
\* Update never write NULL).
NullColumn == "<NULL>"

NothingFound == [called |-> FALSE, id |-> "", err |-> Nil, auth |-> NilAuth]

\* RequestRepository.Create
RepoCreate ==
    /\ ~created.called
    /\ LET e == IF RequestValidate(toCreate) # Nil THEN "invalid request"
                ELSE IF toCreate.ID \in DOMAIN table THEN "failed to create request"
                ELSE Nil
       IN /\ created' = [called |-> TRUE, err |-> e]
          /\ table' = IF e = Nil THEN table @@ (toCreate.ID :> RowOf(toCreate)) ELSE table
    /\ UNCHANGED <<toCreate, found>>
    /\ UNCHANGED <<execVars, saveVars, authVars, valVars, cloneVars, restVars>>

\* RequestRepository.FindByID and the buildRequest it ends with.  row.Scan
\* into a string fails on NULL.
RepoFindByID(id) ==
    /\ ~found.called
    /\ found' =
         IF id \notin DOMAIN table
         THEN [called |-> TRUE, id |-> id, err |-> "ErrNotFound", auth |-> NilAuth]
         ELSE IF table[id].auth_type = NullColumn
         THEN [called |-> TRUE, id |-> id, err |-> "failed to scan request",
               auth |-> NilAuth]
         ELSE LET d == DeserializeAuthConfig(table[id].auth_type, table[id].auth_config)
              IN [called |-> TRUE, id |-> id,
                  err |-> IF d.err # Nil THEN "failed to deserialize auth config" ELSE Nil,
                  auth |-> d.auth]
    /\ UNCHANGED <<table, toCreate, created>>
    /\ UNCHANGED <<execVars, saveVars, authVars, valVars, cloneVars, restVars>>

RepoIdle ==
    /\ table = <<>>
    /\ toCreate = NewRequest("", MethodGet, GoodURL, NoMap, NoMap, Empty, NilAuth)
    /\ created = [called |-> FALSE, err |-> Nil]
    /\ found = NothingFound

(***************************************************************************)
(* Request.Clone and the setters.  A Go map is a reference: Headers and    *)
(* QueryParams of a request hold the address of a map in heap (0 for a nil *)
(* map), and a write through one request is seen through every request     *)
(* that holds the same address.                                            *)
(***************************************************************************)
MapFields == {"Headers", "QueryParams"}

\* What the request's field holds: the map at its address, nothing for nil.
Content(r, f) == IF r[f] = 0 THEN <<>> ELSE heap[r[f]]

\* m[name] = value, and delete(m, name).
MapSet(m, name, value) ==
    [k \in DOMAIN m \cup {name} |-> IF k = name THEN value ELSE m[k]]
MapDelete(m, name) == [k \in DOMAIN m \ {name} |-> m[k]]

\* The body of SetHeader and of SetQueryParam on a map: an empty value removes
\* the name.
SetOrDelete(m, name, value) ==
    IF value = <<>> THEN MapDelete(m, name) ELSE MapSet(m, name, value)

NoClone == [made |-> FALSE, Headers |-> 0, QueryParams |-> 0]

\* Clone that copies the map references instead of the maps.
CloneRequestShallow ==
    /\ ~clone.made
    /\ clone' = [made |-> TRUE, Headers |-> original.Headers,
                 QueryParams |-> original.QueryParams]
    /\ expected' = [expected EXCEPT !.clone = expected.original]
    /\ UNCHANGED <<heap, original>>
    /\ UNCHANGED <<execVars, saveVars, authVars, valVars, repoVars, restVars>>

\* Request.Clone: two maps are made and the original's entries copied into
\* them.
CloneRequest ==
    /\ ~clone.made
    /\ heap' = heap \o <<Content(original, "Headers"), Content(original, "QueryParams")>>
    /\ clone' = [made |-> TRUE, Headers |-> Len(heap) + 1, QueryParams |-> Len(heap) + 2]
    /\ expected' = [expected EXCEPT !.clone = expected.original]
    /\ UNCHANGED original
    /\ UNCHANGED <<execVars, saveVars, authVars, valVars, repoVars, restVars>>

\* Request.SetHeader (f = "Headers") and Request.SetQueryParam (f =
\* "QueryParams") called on the original: a nil map is made first.
SetOnOriginal(f, name, value) ==
    /\ IF original[f] = 0
       THEN /\ heap' = Append(heap, SetOrDelete(<<>>, name, value))
            /\ original' = [original EXCEPT ![f] = Len(heap) + 1]
       ELSE /\ heap' = [heap EXCEPT ![original[f]] = SetOrDelete(@, name, value)]
            /\ UNCHANGED original
    /\ expected' = [expected EXCEPT !.original[f] = SetOrDelete(@, name, value)]
    /\ UNCHANGED clone
    /\ UNCHANGED <<execVars, saveVars, authVars, valVars, repoVars, restVars>>

\* The same setters called on the clone, whose maps Clone made.
SetOnClone(f, name, value) ==
    /\ clone.made
    /\ heap' = [heap EXCEPT ![clone[f]] = SetOrDelete(@, name, value)]
    /\ expected' = [expected EXCEPT !.clone[f] = SetOrDelete(@, name, value)]
    /\ UNCHANGED <<original, clone>>
    /\ UNCHANGED <<execVars, saveVars, authVars, valVars, repoVars, restVars>>

CloneIdle ==
    /\ heap = <<>>
    /\ original = [Headers |-> 0, QueryParams |-> 0]
    /\ clone = NoClone
    /\ expected = [original |-> [Headers |-> <<>>, QueryParams |-> <<>>],
                   clone |-> [Headers |-> <<>>, QueryParams |-> <<>>]]

(***************************************************************************)
(* Schema migrations (runMigrations, MigrateDB, applyMigration).  A        *)
(* migration's SQL is a sequence of statements, each creating one schema   *)
(* object; the database is the schema_migrations rows and the set of       *)
(* schema objects.  Runners are the database handles that run migrations,  *)
(* at the same time or one after the other.  SQLite admits one writing     *)
(* transaction at a time: writer is the runner that holds the write lock.  *)
(***************************************************************************)
Runners == {"m1", "m2"}

Migration(version, name, sql) == [Version |-> version, Name |-> name, SQL |-> sql]

CreateTable(obj) == [op |-> "create", obj |-> obj, ifNotExists |-> FALSE]
CreateTableIfNotExists(obj) == [op |-> "create", obj |-> obj, ifNotExists |-> TRUE]
InvalidStatement == [op |-> "invalid", obj |-> "", ifNotExists |-> FALSE]

\* One statement against a schema: CREATE fails on an object that exists
\* unless it says IF NOT EXISTS; a statement that does not parse fails.
ExecStatement(schema, st) ==
    IF st.op = "invalid" THEN [ok |-> FALSE, schema |-> schema]
    ELSE IF st.obj \in schema THEN [ok |-> st.ifNotExists, schema |-> schema]
    ELSE [ok |-> TRUE, schema |-> schema \cup {st.obj}]

RECURSIVE ExecStatements(_, _)
\* tx.Exec(migration.SQL): the statements in order, up to the first that
\* fails; what the earlier ones changed stays in the transaction.
ExecStatements(schema, sql) ==
    IF sql = <<>> THEN [ok |-> TRUE, schema |-> schema]
    ELSE LET one == ExecStatement(schema, Head(sql))
         IN IF one.ok THEN ExecStatements(one.schema, Tail(sql)) ELSE one

\* loadMigrations: the files of the directory sorted by version (sort.Slice
\* is not stable: files of one version come in any order).
SortedOrders(S) ==
    { sq \in [1..Cardinality(S) -> S] :
        /\ \A i, j \in 1..Cardinality(S) : i # j => sq[i] # sq[j]
        /\ \A i, j \in 1..Cardinality(S) : i < j => sq[i].Version <= sq[j].Version }

Versions(ms) == {ms[i].Version : i \in 1..Len(ms)}

EmptyDB == [tracking |-> FALSE, versions |-> <<>>, schema |-> {}]

NoAttempt == [made |-> FALSE, migration |-> Migration(0, "", <<>>),
              before |-> EmptyDB, after |-> EmptyDB, err |-> Nil]

NotRunning == [pc |-> "idle", migrations |-> <<>>, applied |-> {}, i |-> 0,
               tx |-> EmptyDB, before |-> EmptyDB, err |-> Nil, fresh |-> FALSE,
               attempted |-> {}, commits |-> {}, last |-> NoAttempt]

\* The migration the loop of runner r is at.
CurMigration(r) == run[r].migrations[run[r].i]

\* runMigrations / MigrateDB is called: createMigrationsTable.
RunMigrations(r) ==
    /\ run[r].pc \in {"idle", "done"}
    /\ run' = [run EXCEPT ![r] = [NotRunning EXCEPT !.pc = "load",
                                                    !.fresh = ~db.tracking]]
    /\ db' = [db EXCEPT !.tracking = TRUE]
    /\ UNCHANGED <<files, writer, commitCount>>
    /\ UNCHANGED <<execVars, saveVars, authVars, valVars, repoVars, cloneVars>>
    /\ UNCHANGED otherThanMig

\* loadMigrations (for MigrateDB: the embedded list).
LoadMigrations(r) ==
    /\ run[r].pc = "load"
    /\ \E ms \in SortedOrders(files) :
          run' = [run EXCEPT ![r].pc = "applied", ![r].migrations = ms]
    /\ UNCHANGED <<files, db, writer, commitCount>>
    /\ UNCHANGED <<execVars, saveVars, authVars, valVars, repoVars, cloneVars>>
    /\ UNCHANGED otherThanMig

\* getAppliedMigrations: the versions in schema_migrations now.
GetAppliedMigrations(r) ==
    /\ run[r].pc = "applied"
    /\ run' = [run EXCEPT ![r].pc = "loop", ![r].applied = DOMAIN db.versions,
                          ![r].i = 1]
    /\ UNCHANGED <<files, db, writer, commitCount>>
    /\ UNCHANGED <<execVars, saveVars, authVars, valVars, repoVars, cloneVars>>
    /\ UNCHANGED otherThanMig

\* The loop that never consults appliedVersions.
NextMigrationNeverSkips(r) ==
    /\ run[r].pc = "loop"
    /\ IF run[r].i > Len(run[r].migrations)
       THEN run' = [run EXCEPT ![r].pc = "done", ![r].err = Nil]
       ELSE run' = [run EXCEPT ![r].pc = "tx",
                               ![r].attempted = @ \cup {CurMigration(r).Version}]
    /\ UNCHANGED <<files, db, writer, commitCount>>
    /\ UNCHANGED <<execVars, saveVars, authVars, valVars, repoVars, cloneVars>>
    /\ UNCHANGED otherThanMig

\* One turn of the loop of runMigrations: return nil after the last
\* migration, skip a version found in appliedVersions, else call
\* applyMigration, which begins a transaction.
NextMigration(r) ==
    /\ run[r].pc = "loop"
    /\ IF run[r].i > Len(run[r].migrations)
       THEN run' = [run EXCEPT ![r].pc = "done", ![r].err = Nil]
       ELSE IF CurMigration(r).Version \in run[r].applied
            THEN run' = [run EXCEPT ![r].i = @ + 1]
            ELSE run' = [run EXCEPT ![r].pc = "tx",
                               ![r].attempted = @ \cup {CurMigration(r).Version}]
    /\ UNCHANGED <<files, db, writer, commitCount>>
    /\ UNCHANGED <<execVars, saveVars, authVars, valVars, repoVars, cloneVars>>
    /\ UNCHANGED otherThanMig

\* applyMigration that runs its statements with no transaction around them:
\* what was executed before the failure stays.
ApplyFailsKeepingChanges(r, before, tx, e) ==
    /\ db' = tx
    /\ writer' = "none"
    /\ run' = [run EXCEPT ![r].pc = "done", ![r].err = e,
                          ![r].last = [made |-> TRUE, migration |-> CurMigration(r),
                                       before |-> before, after |-> tx, err |-> e]]
    /\ UNCHANGED <<files, commitCount>>

\* applyMigration returns an error: the deferred tx.Rollback discards what
\* the transaction (tx) changed, and runMigrations returns the error.
ApplyFails(r, before, tx, e) ==
    /\ UNCHANGED db
    /\ writer' = "none"
    /\ run' = [run EXCEPT ![r].pc = "done", ![r].err = e,
                          ![r].last = [made |-> TRUE, migration |-> CurMigration(r),
                                       before |-> before, after |-> db, err |-> e]]
    /\ UNCHANGED <<files, commitCount>>

\* tx.Exec(migration.SQL): the first write of the transaction takes the
\* write lock, so it waits while another runner holds it.
ExecMigrationSQL(r) ==
    /\ run[r].pc = "tx"
    /\ writer = "none"
    /\ LET out == ExecStatements(db.schema, CurMigration(r).SQL)
           tx == [db EXCEPT !.schema = out.schema]
       IN IF out.ok
          THEN /\ run' = [run EXCEPT ![r].pc = "record", ![r].tx = tx, ![r].before = db]
               /\ writer' = r
               /\ UNCHANGED <<files, db, commitCount>>
          ELSE ApplyFails(r, db, tx, "failed to execute migration SQL")
    /\ UNCHANGED <<execVars, saveVars, authVars, valVars, repoVars, cloneVars>>
    /\ UNCHANGED otherThanMig

\* tx.Exec(migration.SQL) gives up waiting for the write lock (SQLITE_BUSY).
ExecMigrationSQLBusy(r) ==
    /\ run[r].pc = "tx"
    /\ writer \notin {"none", r}
    /\ run' = [run EXCEPT ![r].pc = "done",
                          ![r].err = "failed to execute migration SQL",
                          ![r].last = [made |-> TRUE, migration |-> CurMigration(r),
                                       before |-> db, after |-> db,
                                       err |-> "failed to execute migration SQL"]]
    /\ UNCHANGED <<files, db, writer, commitCount>>
    /\ UNCHANGED <<execVars, saveVars, authVars, valVars, repoVars, cloneVars>>
    /\ UNCHANGED otherThanMig

\* INSERT INTO schema_migrations (version, name): version is the primary
\* key, so the insert fails when a row with this version exists.
RecordMigration(r) ==
    /\ run[r].pc = "record"
    /\ IF CurMigration(r).Version \in DOMAIN run[r].tx.versions
       THEN ApplyFails(r, run[r].before, run[r].tx, "failed to record migration")
       ELSE /\ run' = [run EXCEPT ![r].pc = "commit",
                                  ![r].tx.versions =
                                      @ @@ (CurMigration(r).Version :> CurMigration(r).Name)]
            /\ UNCHANGED <<files, db, writer, commitCount>>
    /\ UNCHANGED <<execVars, saveVars, authVars, valVars, repoVars, cloneVars>>
    /\ UNCHANGED otherThanMig

\* tx.Commit succeeds: the transaction's changes become the database, and
\* the loop goes on to the next migration.
CommitMigration(r) ==
    /\ run[r].pc = "commit"
    /\ db' = run[r].tx
    /\ writer' = "none"
    /\ commitCount' = [commitCount EXCEPT ![CurMigration(r).Version] = @ + 1]
    /\ run' = [run EXCEPT ![r].pc = "loop", ![r].i = @ + 1,
                          ![r].commits = @ \cup {CurMigration(r).Version},
                          ![r].last = [made |-> TRUE, migration |-> CurMigration(r),
                                       before |-> run[r].before, after |-> run[r].tx,
                                       err |-> Nil]]
    /\ UNCHANGED files
    /\ UNCHANGED <<execVars, saveVars, authVars, valVars, repoVars, cloneVars>>
    /\ UNCHANGED otherThanMig

\* tx.Commit fails.
CommitMigrationFails(r) ==
    /\ run[r].pc = "commit"
    /\ ApplyFails(r, run[r].before, run[r].tx, "failed to commit transaction")
    /\ UNCHANGED <<execVars, saveVars, authVars, valVars, repoVars, cloneVars>>
    /\ UNCHANGED otherThanMig

\* A migration file is added to the directory.
AddMigrationFile(m) ==
    /\ m \notin files
    /\ files' = files \cup {m}
    /\ UNCHANGED <<db, writer, run, commitCount>>
    /\ UNCHANGED <<execVars, saveVars, authVars, valVars, repoVars, cloneVars>>
    /\ UNCHANGED otherThanMig

MigIdle ==
    /\ files = {}
    /\ db = EmptyDB
    /\ writer = "none"
    /\ run = [r \in Runners |-> NotRunning]
    /\ commitCount = [v \in {} |-> 0]

(***************************************************************************)
(* Response: the status predicates and the header lookup.  The order in    *)
(* which Go ranges over a map is not fixed, so GetHeader has a set of      *)
(* possible results when several keys match without regard to case.        *)
(***************************************************************************)
IsSuccess(r) == r.StatusCode >= 200 /\ r.StatusCode < 300
IsRedirect(r) == r.StatusCode >= 300 /\ r.StatusCode < 400
IsClientError(r) == r.StatusCode >= 400 /\ r.StatusCode < 500

\* IsServerError with no upper limit.
IsServerErrorUnbounded(r) == r.StatusCode >= 500

IsServerError(r) == r.StatusCode >= 500 /\ r.StatusCode < 600

IsError(r) == IsClientError(r) \/ IsServerError(r)
IsInformational(r) == r.StatusCode >= 100 /\ r.StatusCode < 200

StatusClass(r) ==
    IF IsInformational(r) THEN "1xx Informational"
    ELSE IF IsSuccess(r) THEN "2xx Success"
    ELSE IF IsRedirect(r) THEN "3xx Redirect"
    ELSE IF IsClientError(r) THEN "4xx Client Error"
    ELSE IF IsServerError(r) THEN "5xx Server Error"
    ELSE "Unknown"

\* equalsFold: the same length, and the same bytes once A-Z are lowered.
EqualsFold(a, b) ==
    /\ Len(a) = Len(b)
    /\ \A i \in 1..Len(a) : ToLowerChar(a[i]) = ToLowerChar(b[i])

\* Response.GetHeader: the values it can return.  The exact key first; else
\* the value of the first key the range meets that equals name by
\* equalsFold; else "".
GetHeader(r, name) ==
    IF name \in DOMAIN r.Headers THEN {r.Headers[name]}
    ELSE LET matches == {k \in DOMAIN r.Headers : EqualsFold(k, name)}
         IN IF matches = {} THEN {Empty} ELSE {r.Headers[k] : k \in matches}

\* Response.HasHeader from the value GetHeader returned.
HasHeader(value) == value # Empty

NoAnswer == [op |-> "none", name |-> Empty, value |-> Empty, has |-> FALSE,
             classes |-> <<>>, error |-> FALSE, class |-> ""]

\* r.HasHeader(name) is called.
CallHasHeader(name) ==
    /\ \E value \in GetHeader(resp, name) :
          answer' = [NoAnswer EXCEPT !.op = "HasHeader", !.name = name,
                                     !.value = value, !.has = HasHeader(value)]
    /\ UNCHANGED resp
    /\ UNCHANGED <<execVars, saveVars, authVars, valVars, repoVars, cloneVars>>
    /\ UNCHANGED otherThanResp

\* The status predicates and StatusClass are called on the response.
CallStatusPredicates ==
    /\ answer' = [NoAnswer EXCEPT
                    !.op = "StatusClass",
                    !.classes = <<IsInformational(resp), IsSuccess(resp), IsRedirect(resp),
                                  IsClientError(resp), IsServerError(resp)>>,
                    !.error = IsError(resp),
                    !.class = StatusClass(resp)]
    /\ UNCHANGED resp
    /\ UNCHANGED <<execVars, saveVars, authVars, valVars, repoVars, cloneVars>>
    /\ UNCHANGED otherThanResp

RespIdle ==
    /\ resp = [StatusCode |-> 0, Headers |-> <<>>]
    /\ answer = NoAnswer

(***************************************************************************)
(* The terminal interface: MainModel and its sub-models RequestModel,      *)
(* ResponseModel and HistoryModel.  Each Update is a function from a model *)
(* and a message to the new model and a command, as in Bubble Tea; the     *)
(* program runs a command in a goroutine of its own and feeds the message  *)
(* it returns back to MainModel.Update.                                    *)
(*                                                                         *)
(* The Update methods have value receivers and end with                    *)
(* "return m, m.sendRequest()", where sendRequest has a pointer receiver   *)
(* and sets m.loading.  The compiler of the Go distribution evaluates the  *)
(* call before it copies m, so the model returned has loading set.         *)
(***************************************************************************)
TabRequest == 0
TabResponse == 1
TabHistory == 2
Tabs == <<"Request", "Response", "History">>

fieldMethod == 0
fieldURL == 1
fieldName == 2
fieldHeaders == 3
fieldQueryParams == 4
fieldBody == 5
fieldAuthType == 6
fieldSend == 7
fieldCount == 8

KeyCtrlC == "ctrl+c"

\* Messages: a key (msg.String()), a window size, and the results of
\* commands.  ok: the command returned no error (for requestSentMsg: it
\* returned a response).
KeyMsg(k) == [type |-> "key", key |-> k, ok |-> FALSE, entries |-> <<>>]
WindowSizeMsg == [type |-> "windowSize", key |-> "", ok |-> FALSE, entries |-> <<>>]
RequestSentMsg(ok) == [type |-> "requestSent", key |-> "", ok |-> ok, entries |-> <<>>]
HistoryLoadedMsg(ok, entries) ==
    [type |-> "historyLoaded", key |-> "", ok |-> ok, entries |-> entries]
HistoryDeletedMsg(ok) == [type |-> "historyDeleted", key |-> "", ok |-> ok, entries |-> <<>>]

\* Commands.  "validationFailed" is the closure of sendRequest that returns
\* requestSentMsg{err}, "executeAndSave" the one that calls
\* RequestService.ExecuteAndSave; "panic" stands for a run-time panic.
Cmd(kind) == [kind |-> kind, id |-> 0]
NoCmd == Cmd("none")
QuitCmd == Cmd("quit")
DeleteEntryCmd(id) == [kind |-> "deleteEntry", id |-> id]
AsyncKinds == {"validationFailed", "executeAndSave", "loadHistory", "deleteEntry"}

(***************************************************************************)
(* RequestModel.  urlInput keeps of the text of the URL field what decides *)
(* Validate: the field is empty, holds the beginning of a URL, or a        *)
(* complete URL.                                                           *)
(***************************************************************************)
NewRequestModel ==
    [focusedField |-> fieldURL, loading |-> FALSE, errorMsg |-> FALSE,
     methodIndex |-> 0, authTypeIndex |-> 0, urlInput |-> BlankURL]

\* The keys that type a character into a focused text input.
RuneKeys == {"x", "h", "l", "k", "j", "d", "r", "g", "G", " "}

\* textinput.Model.Update of the URL field.
URLInputUpdate(value, key) ==
    IF key \in RuneKeys
    THEN (IF value = BlankURL THEN NoHostURL ELSE GoodURL)
    ELSE IF key = "backspace"
    THEN (IF value = GoodURL THEN NoHostURL ELSE BlankURL)
    ELSE value

\* RequestModel.buildRequest: every choice of the auth selector gives NoAuth.
BuildRequest(m) ==
    NewRequest("ui", SupportedMethods[m.methodIndex + 1], m.urlInput, NoMap, NoMap,
               Empty, NoAuth)

\* RequestModel.sendRequest.
SendRequest(m) ==
    IF RequestValidate(BuildRequest(m)) # Nil
    THEN [m |-> m, cmd |-> Cmd("validationFailed")]
    ELSE [m |-> [m EXCEPT !.loading = TRUE], cmd |-> Cmd("executeAndSave")]

\* The field-specific part of RequestModel.Update for a key.
RequestFieldKey(m, key) ==
    IF m.focusedField = fieldMethod
    THEN [m |-> IF key \in {"left", "h"} /\ m.methodIndex > 0
                THEN [m EXCEPT !.methodIndex = @ - 1]
                ELSE IF key \in {"right", "l"} /\ m.methodIndex < Len(SupportedMethods) - 1
                THEN [m EXCEPT !.methodIndex = @ + 1]
                ELSE m,
          cmd |-> NoCmd]
    ELSE IF m.focusedField = fieldURL
    THEN [m |-> [m EXCEPT !.urlInput = URLInputUpdate(@, key)], cmd |-> NoCmd]
    ELSE IF m.focusedField = fieldAuthType
    THEN [m |-> IF key \in {"left", "h"} /\ m.authTypeIndex > 0
                THEN [m EXCEPT !.authTypeIndex = @ - 1]
                ELSE IF key \in {"right", "l"} /\ m.authTypeIndex < 3
                THEN [m EXCEPT !.authTypeIndex = @ + 1]
                ELSE m,
          cmd |-> NoCmd]
    ELSE IF m.focusedField = fieldSend /\ key \in {"enter", " "} /\ ~m.loading
    THEN SendRequest(m)
    ELSE [m |-> m, cmd |-> NoCmd]

\* RequestModel.Update.
RequestUpdate(m, msg) ==
    IF msg.type = "key"
    THEN IF msg.key = KeyCtrlC THEN [m |-> m, cmd |-> QuitCmd]
         ELSE IF msg.key \in {"ctrl+enter", "ctrl+r"}
         THEN (IF ~m.loading THEN SendRequest(m) ELSE [m |-> m, cmd |-> NoCmd])
         ELSE IF msg.key = "tab"
         THEN [m |-> [m EXCEPT !.focusedField = (@ + 1) % fieldCount], cmd |-> NoCmd]
         ELSE IF msg.key = "shift+tab"
         THEN [m |-> [m EXCEPT !.focusedField = (@ - 1 + fieldCount) % fieldCount],
               cmd |-> NoCmd]
         ELSE RequestFieldKey(m, msg.key)
    ELSE IF msg.type = "requestSent"
    THEN [m |-> [m EXCEPT !.loading = FALSE, !.errorMsg = ~msg.ok], cmd |-> NoCmd]
    ELSE [m |-> m, cmd |-> NoCmd]

(***************************************************************************)
(* ResponseModel.                                                          *)
(***************************************************************************)
NewResponseModel == [hasResponse |-> FALSE, showingHeaders |-> FALSE]

\* ResponseModel.Update.
ResponseUpdate(m, msg) ==
    IF msg.type = "key"
    THEN IF msg.key = KeyCtrlC THEN [m |-> m, cmd |-> QuitCmd]
         ELSE IF msg.key = "h"
         THEN [m |-> [m EXCEPT !.showingHeaders = ~@], cmd |-> NoCmd]
         ELSE [m |-> m, cmd |-> NoCmd]
    ELSE IF msg.type = "requestSent" /\ msg.ok
    THEN [m |-> [m EXCEPT !.hasResponse = TRUE], cmd |-> NoCmd]
    ELSE [m |-> m, cmd |-> NoCmd]

\* ResponseModel.SetResponse.
SetResponse(m) == [m EXCEPT !.hasResponse = TRUE]

(***************************************************************************)
(* HistoryModel.  entries holds the ids of the entries, selectedIndex      *)
(* counts from 0 as in the code.                                           *)
(***************************************************************************)
NewHistoryModel == [entries |-> <<>>, selectedIndex |-> 0, loading |-> FALSE,
                    errorMsg |-> FALSE]

Max(a, b) == IF a >= b THEN a ELSE b

\* The handler of historyLoadedMsg without the check of selectedIndex.
HistoryLoadedUnchecked(m, msg) ==
    IF ~msg.ok
    THEN [m EXCEPT !.loading = FALSE, !.errorMsg = TRUE]
    ELSE [m EXCEPT !.loading = FALSE, !.errorMsg = FALSE, !.entries = msg.entries]

\* HistoryModel.Update, case historyLoadedMsg.
HistoryLoaded(m, msg) ==
    IF ~msg.ok
    THEN [m EXCEPT !.loading = FALSE, !.errorMsg = TRUE]
    ELSE [m EXCEPT !.loading = FALSE, !.errorMsg = FALSE, !.entries = msg.entries,
                   !.selectedIndex = IF @ >= Len(msg.entries)
                                     THEN Max(0, Len(msg.entries) - 1) ELSE @]

\* HistoryModel.Update, case tea.KeyMsg.
HistoryKey(m, key) ==
    IF m.loading THEN [m |-> m, cmd |-> NoCmd]
    ELSE IF key = KeyCtrlC THEN [m |-> m, cmd |-> QuitCmd]
    ELSE IF key \in {"up", "k"}
    THEN [m |-> IF m.selectedIndex > 0 THEN [m EXCEPT !.selectedIndex = @ - 1] ELSE m,
          cmd |-> NoCmd]
    ELSE IF key \in {"down", "j"}
    THEN [m |-> IF m.selectedIndex < Len(m.entries) - 1
                THEN [m EXCEPT !.selectedIndex = @ + 1] ELSE m,
          cmd |-> NoCmd]
    ELSE IF key \in {"delete", "d"} /\ Len(m.entries) > 0
    THEN IF m.selectedIndex + 1 \in DOMAIN m.entries
         THEN [m |-> [m EXCEPT !.loading = TRUE],
               cmd |-> DeleteEntryCmd(m.entries[m.selectedIndex + 1])]
         ELSE [m |-> m, cmd |-> Cmd("panic")]
    ELSE IF key = "r"
    THEN [m |-> [m EXCEPT !.loading = TRUE], cmd |-> Cmd("loadHistory")]
    ELSE IF key \in {"home", "g"}
    THEN [m |-> [m EXCEPT !.selectedIndex = 0], cmd |-> NoCmd]
    ELSE IF key \in {"end", "G"} /\ Len(m.entries) > 0
    THEN [m |-> [m EXCEPT !.selectedIndex = Len(m.entries) - 1], cmd |-> NoCmd]
    ELSE [m |-> m, cmd |-> NoCmd]

\* HistoryModel.Update.
HistoryUpdate(m, msg) ==
    IF msg.type = "key" THEN HistoryKey(m, msg.key)
    ELSE IF msg.type = "historyLoaded" THEN [m |-> HistoryLoaded(m, msg), cmd |-> NoCmd]
    ELSE IF msg.type = "historyDeleted"
    THEN IF ~msg.ok
         THEN [m |-> [m EXCEPT !.loading = FALSE, !.errorMsg = TRUE], cmd |-> NoCmd]
         ELSE [m |-> [m EXCEPT !.loading = TRUE], cmd |-> Cmd("loadHistory")]
    ELSE [m |-> m, cmd |-> NoCmd]

\* HistoryModel.GetSelectedEntry: the id of the entry, 0 for nil.
GetSelectedEntry(m) ==
    IF m.selectedIndex >= 0 /\ m.selectedIndex < Len(m.entries)
    THEN m.entries[m.selectedIndex + 1] ELSE 0

(***************************************************************************)
(* MainModel.                                                              *)
(***************************************************************************)
NewMainModel ==
    [activeTab |-> TabRequest, showHelp |-> FALSE, quitting |-> FALSE,
     statusMsg |-> "Press ? for help",
     requestModel |-> NewRequestModel, responseModel |-> NewResponseModel,
     historyModel |-> NewHistoryModel]

NextTab(t) == (t + 1) % Len(Tabs)

\* The previous tab computed as (activeTab - 1) % len(tabs): Go's remainder
\* of -1 is -1.
PrevTabNoWrap(t) == t - 1

PrevTab(t) == (t - 1 + Len(Tabs)) % Len(Tabs)

NotHandled(m) == [handled |-> FALSE, m |-> m, cmd |-> NoCmd]
Handled(m, cmd) == [handled |-> TRUE, m |-> m, cmd |-> cmd]

\* MainModel.handleTabNavigation.
HandleTabNavigation(m, key) ==
    IF key = "tab" THEN Handled([m EXCEPT !.activeTab = NextTab(@)], NoCmd)
    ELSE IF key = "shift+tab" THEN Handled([m EXCEPT !.activeTab = PrevTab(@)], NoCmd)
    ELSE IF key = "1" THEN Handled([m EXCEPT !.activeTab = TabRequest], NoCmd)
    ELSE IF key = "2" THEN Handled([m EXCEPT !.activeTab = TabResponse], NoCmd)
    ELSE IF key = "3" THEN Handled([m EXCEPT !.activeTab = TabHistory], NoCmd)
    ELSE NotHandled(m)

\* MainModel.handleGlobalKey (in main_model.go: the switch on msg.String()).
HandleGlobalKey(m, key) ==
    IF key \in {KeyCtrlC, "q"} /\ ~m.showHelp
    THEN Handled([m EXCEPT !.quitting = TRUE], QuitCmd)
    ELSE IF key = "?" THEN Handled([m EXCEPT !.showHelp = ~@], NoCmd)
    ELSE IF key = "esc" /\ m.showHelp THEN Handled([m EXCEPT !.showHelp = FALSE], NoCmd)
    ELSE IF ~m.showHelp THEN HandleTabNavigation(m, key)
    ELSE NotHandled(m)

\* MainModel.handleRequestSentMsg.
HandleRequestSentMsg(m, msg) ==
    LET r == RequestUpdate(m.requestModel, msg)
        m1 == [m EXCEPT !.requestModel = r.m]
    IN [m |-> IF msg.ok
              THEN [m1 EXCEPT !.responseModel = SetResponse(@),
                              !.activeTab = TabResponse,
                              !.statusMsg = "Request completed successfully"]
              ELSE [m1 EXCEPT !.statusMsg = "Request failed"],
        cmd |-> r.cmd]

\* MainModel.delegateToActiveTab.
DelegateToActiveTab(m, msg) ==
    IF m.activeTab = TabRequest
    THEN LET r == RequestUpdate(m.requestModel, msg)
         IN [m |-> [m EXCEPT !.requestModel = r.m], cmd |-> r.cmd]
    ELSE IF m.activeTab = TabResponse
    THEN LET r == ResponseUpdate(m.responseModel, msg)
         IN [m |-> [m EXCEPT !.responseModel = r.m], cmd |-> r.cmd]
    ELSE IF m.activeTab = TabHistory
    THEN LET r == HistoryUpdate(m.historyModel, msg)
         IN [m |-> [m EXCEPT !.historyModel = r.m], cmd |-> r.cmd]
    ELSE [m |-> m, cmd |-> NoCmd]

\* The end of MainModel.Update: nothing reaches a sub-model while the help
\* screen shows.
DelegateUnlessHelp(m, msg) ==
    IF m.showHelp THEN [m |-> m, cmd |-> NoCmd] ELSE DelegateToActiveTab(m, msg)

\* MainModel.Update.
MainUpdate(m, msg) ==
    IF msg.type = "key"
    THEN LET g == HandleGlobalKey(m, msg.key)
         IN IF g.handled THEN [m |-> g.m, cmd |-> g.cmd] ELSE DelegateUnlessHelp(m, msg)
    ELSE IF msg.type = "requestSent" THEN HandleRequestSentMsg(m, msg)
    ELSE IF msg.type \in {"historyLoaded", "historyDeleted"}
    THEN LET r == HistoryUpdate(m.historyModel, msg)
         IN [m |-> [m EXCEPT !.historyModel = r.m], cmd |-> r.cmd]
    ELSE DelegateUnlessHelp(m, msg)

(***************************************************************************)
(* The program around the models: the commands that run (running), the     *)
(* messages they returned and Update has not yet received (inbox), and the *)
(* history table the commands read and write (store: the ids of its rows). *)
(***************************************************************************)
Pending == BagCardinality(running) + BagCardinality(inbox)

\* The entries GetHistory returns: newest first.
ListDesc(S) ==
    CHOOSE sq \in [1..Cardinality(S) -> S] :
        \A i, j \in 1..Cardinality(S) : i < j => sq[i] > sq[j]

\* The id of the history entry the n-th send writes: ids are fresh.
NewEntry(n) == Cardinality(EarlierEntries) + 1 + n

\* The program takes the model and the command an Update returned: the
\* command starts to run.  A send gets the id of the history entry it will
\* write.
Took(msg, out, left) ==
    /\ out.cmd.kind \in AsyncKinds => Pending < MaxPending
    /\ out.cmd.kind = "executeAndSave" => issued < MaxSends
    /\ model' = out.m
    /\ quit' = (quit \/ out.cmd.kind \in {"quit", "panic"})
    /\ issued' = IF out.cmd.kind = "executeAndSave" THEN issued + 1 ELSE issued
    /\ running' = IF out.cmd.kind = "executeAndSave"
                  THEN left (+) SetToBag({[out.cmd EXCEPT !.id = NewEntry(issued)]})
                  ELSE IF out.cmd.kind \in AsyncKinds
                  THEN left (+) SetToBag({out.cmd})
                  ELSE left

\* A key is pressed: the program calls MainModel.Update with it.
PressKey(k) ==
    /\ ~quit
    /\ Took(KeyMsg(k), MainUpdate(model, KeyMsg(k)), running)
    /\ UNCHANGED <<inbox, store, lastMsg>>
    /\ UNCHANGED <<execVars, saveVars, authVars, valVars, repoVars, cloneVars>>
    /\ UNCHANGED otherThanUI

\* A running command returns its message.  ExecuteAndSave returns a
\* response or an error and may have written its history entry;
\* GetHistory returns the table or an error; DeleteHistory deletes the row,
\* or fails (ErrNotFound when the row is gone).
RunCommand(c) ==
    /\ ~quit
    /\ BagIn(c, running)
    /\ running' = running (-) SetToBag({c})
    /\ \/ /\ c.kind = "validationFailed"
          /\ inbox' = inbox (+) SetToBag({RequestSentMsg(FALSE)})
          /\ UNCHANGED store
       \/ /\ c.kind = "executeAndSave"
          /\ \E ok \in BOOLEAN : inbox' = inbox (+) SetToBag({RequestSentMsg(ok)})
          /\ store' \in {store, store \cup {c.id}}
       \/ /\ c.kind = "loadHistory"
          /\ inbox' \in {inbox (+) SetToBag({HistoryLoadedMsg(TRUE, ListDesc(store))}),
                         inbox (+) SetToBag({HistoryLoadedMsg(FALSE, <<>>)})}
          /\ UNCHANGED store
       \/ /\ c.kind = "deleteEntry"
          /\ \/ /\ c.id \in store
                /\ store' = store \ {c.id}
                /\ inbox' = inbox (+) SetToBag({HistoryDeletedMsg(TRUE)})
             \/ /\ UNCHANGED store
                /\ inbox' = inbox (+) SetToBag({HistoryDeletedMsg(FALSE)})
    /\ UNCHANGED <<model, issued, quit, lastMsg>>
    /\ UNCHANGED <<execVars, saveVars, authVars, valVars, repoVars, cloneVars>>
    /\ UNCHANGED otherThanUI

\* The program passes a message of the inbox to MainModel.Update.
Deliver(msg) ==
    /\ ~quit
    /\ BagIn(msg, inbox)
    /\ inbox' = inbox (-) SetToBag({msg})
    /\ Took(msg, MainUpdate(model, msg), running)
    /\ UNCHANGED <<store, lastMsg>>
    /\ UNCHANGED <<execVars, saveVars, authVars, valVars, repoVars, cloneVars>>
    /\ UNCHANGED otherThanUI

\* HistoryModel.Update called with a key, whatever MainModel would do with
\* it.
HistoryPressKey(k) ==
    /\ ~quit
    /\ LET r == HistoryUpdate(model.historyModel, KeyMsg(k))
       IN Took(KeyMsg(k),
               [m |-> [model EXCEPT !.historyModel = r.m], cmd |-> r.cmd], running)
    /\ lastMsg' = KeyMsg(k)
    /\ UNCHANGED <<inbox, store>>
    /\ UNCHANGED <<execVars, saveVars, authVars, valVars, repoVars, cloneVars>>
    /\ UNCHANGED otherThanUI

\* HistoryModel.Update called with a message of the inbox.
HistoryDeliver(msg) ==
    /\ ~quit
    /\ BagIn(msg, inbox)
    /\ inbox' = inbox (-) SetToBag({msg})
    /\ LET r == HistoryUpdate(model.historyModel, msg)
       IN Took(msg, [m |-> [model EXCEPT !.historyModel = r.m], cmd |-> r.cmd],
               running)
    /\ lastMsg' = msg
    /\ UNCHANGED store
    /\ UNCHANGED <<execVars, saveVars, authVars, valVars, repoVars, cloneVars>>
    /\ UNCHANGED otherThanUI

\* MainModel.Update called with a message, whatever the program would pass
\* to it; the command it returns is not run.
MainReceives(msg) ==
    /\ model' = MainUpdate(model, msg).m
    /\ lastMsg' = msg
    /\ UNCHANGED <<running, inbox, store, issued, quit>>
    /\ UNCHANGED <<execVars, saveVars, authVars, valVars, repoVars, cloneVars>>
    /\ UNCHANGED otherThanUI

\* tea.NewProgram(model) before it starts: MainModel.Init returns the
\* command of HistoryModel.Init, which loads the history; the loading flag
\* that loadHistory set is set in the copy Init was called on.
UIIdle ==
    /\ model = NewMainModel
    /\ running = EmptyBag
    /\ inbox = EmptyBag
    /\ store = {}
    /\ issued = 0
    /\ quit = FALSE
    /\ lastMsg = WindowSizeMsg

(***************************************************************************)
(* RequestService.SaveRequest step by step, for callers that share the     *)
(* service and its repository: Validate, FindByID, then Update or Create.  *)
(* Each repository call is one statement on the requests table; nothing    *)
(* joins the FindByID and the statement that follows it.                   *)
(***************************************************************************)
Savers == {"s1", "s2"}

NotSaving ==
    [pc |-> "idle", req |-> NewRequest("", MethodGet, GoodURL, NoMap, NoMap, Empty, NilAuth),
     err |-> Nil]

\* The error of RequestRepository.FindByID(id) on the table as it is.
FindByIDError(id) ==
    IF id \notin DOMAIN table THEN "ErrNotFound"
    ELSE IF table[id].auth_type = NullColumn THEN "failed to scan request"
    ELSE IF DeserializeAuthConfig(table[id].auth_type, table[id].auth_config).err # Nil
    THEN "failed to deserialize auth config"
    ELSE Nil

\* SaveRequest is called: req.Validate().
SaveRequestCall(s, r) ==
    /\ saving[s].pc = "idle"
    /\ saving' = [saving EXCEPT ![s] =
                    IF RequestValidate(r) # Nil
                    THEN [pc |-> "done", req |-> r, err |-> "invalid request"]
                    ELSE [pc |-> "find", req |-> r, err |-> Nil]]
    /\ UNCHANGED repoVars
    /\ UNCHANGED <<execVars, saveVars, authVars, valVars, cloneVars>>
    /\ UNCHANGED otherThanSaving

\* existing, err := s.repo.FindByID(ctx, req.ID)
SaveRequestFind(s) ==
    /\ saving[s].pc = "find"
    /\ saving' = [saving EXCEPT ![s].pc =
                    IF FindByIDError(saving[s].req.ID) = Nil THEN "update" ELSE "create"]
    /\ UNCHANGED repoVars
    /\ UNCHANGED <<execVars, saveVars, authVars, valVars, cloneVars>>
    /\ UNCHANGED otherThanSaving

\* s.repo.Update(ctx, req): ErrNotFound when no row has the id.
SaveRequestUpdate(s) ==
    /\ saving[s].pc = "update"
    /\ LET r == saving[s].req
       IN IF r.ID \in DOMAIN table
          THEN /\ table' = [table EXCEPT ![r.ID] = RowOf(r)]
               /\ saving' = [saving EXCEPT ![s].pc = "done"]
          ELSE /\ saving' = [saving EXCEPT ![s].pc = "done",
                                            ![s].err = "failed to update request"]
               /\ UNCHANGED table
    /\ UNCHANGED <<toCreate, created, found>>
    /\ UNCHANGED <<execVars, saveVars, authVars, valVars, cloneVars>>
    /\ UNCHANGED otherThanSaving

\* s.repo.Create(ctx, req): the INSERT fails when a row has the id (id is
\* the primary key).
SaveRequestCreate(s) ==
    /\ saving[s].pc = "create"
    /\ LET r == saving[s].req
       IN IF r.ID \in DOMAIN table
          THEN /\ saving' = [saving EXCEPT ![s].pc = "done",
                                            ![s].err = "failed to save request"]
               /\ UNCHANGED table
          ELSE /\ table' = table @@ (r.ID :> RowOf(r))
               /\ saving' = [saving EXCEPT ![s].pc = "done"]
    /\ UNCHANGED <<toCreate, created, found>>
    /\ UNCHANGED <<execVars, saveVars, authVars, valVars, cloneVars>>
    /\ UNCHANGED otherThanSaving

SavingIdle == saving = [s \in Savers |-> NotSaving]

(***************************************************************************)
(* Initial states and specifications.                                      *)
(***************************************************************************)
RestIdle ==
    /\ MigIdle
    /\ RespIdle
    /\ UIIdle
    /\ SavingIdle

ExecIdle(ops, reqs) ==
    /\ op = ops
    /\ req = reqs
    /\ ctx = [c \in Callers |-> "live"]
    /\ ctxAtCall = [c \in Callers |-> "live"]
    /\ step = [c \in Callers |-> 0]
    /\ inDo = [c \in Callers |-> FALSE]
    /\ wire = [c \in Callers |-> EmptyWire]
    /\ via = [c \in Callers |-> 0]
    /\ seen = [c \in Callers |-> 0]
    /\ doCalls = [c \in Callers |-> 0]
    /\ netStarted = [c \in Callers |-> FALSE]
    /\ trace = [c \in Callers |-> <<>>]
    /\ awaiting = [c \in Callers |-> FALSE]
    /\ httpStatus = [c \in Callers |-> 0]
    /\ result = [c \in Callers |-> NoResult]

SaveIdle ==
    /\ svStep = [c \in Callers |-> 0]
    /\ svResult = [c \in Callers |-> NoResult]
    /\ saveAttempts = [c \in Callers |-> 0]
    /\ saveErr = [c \in Callers |-> Nil]
    /\ savedAfter = [c \in Callers |-> FALSE]
    /\ requests = {}
    /\ history = {}

AuthIdle ==
    /\ authIn = NoAuth
    /\ wireIn = EmptyWire
    /\ applyOut = [called |-> FALSE, err |-> Nil, wire |-> EmptyWire]

ValIdle ==
    /\ vReq = NewRequest("", MethodGet, GoodURL, NoMap, NoMap, Empty, NilAuth)
    /\ vOut = [called |-> FALSE, err |-> Nil]

\* Concurrent calls of Execute on one client.
Init ==
    /\ RestIdle
    /\ config \in Configs
    /\ \E reqs \in [Callers -> ExecRequests] :
          ExecIdle([c \in Callers |-> "Execute"], reqs)
    /\ SaveIdle
    /\ AuthIdle
    /\ ValIdle
    /\ RepoIdle
    /\ CloneIdle

ExecuteStep(c) ==
    \/ ExecValidate(c)
    \/ ExecBuild(c)
    \/ ExecAuth(c)
    \/ ExecDo(c)
    \/ RoundTripSend(c)
    \/ RoundTripEnd(c)
    \/ ExecConvert(c)

Next ==
    \E c \in Callers :
        \/ CallExecute(c)
        \/ ExecuteStep(c)
        \/ CancelCtx(c)
        \/ ExpireCtx(c)

Spec == Init /\ [][Next]_vars

\* The requests the callers of the service pass: a request with an id, an
\* ad-hoc request without one, and an invalid request.
SaveRequests ==
    { NewRequest("r1", MethodGet, GoodURL, NoMap, NoMap, Empty, NoAuth),
      NewRequest("", MethodGet, GoodURL, NoMap, NoMap, Empty, NilAuth),
      NewRequest("r1", <<"B","O","G","U","S">>, GoodURL, NoMap, NoMap, Empty, NoAuth) }

\* Concurrent calls of ExecuteAndSave on one service, over a database whose
\* requests and history tables start empty.  The client does not follow
\* redirects, and the callers' contexts carry no deadline.
InitSave ==
    /\ RestIdle
    /\ config = [FollowRedirects |-> FALSE, MaxRedirects |-> MaxRedirectsBound]
    /\ \E reqs \in [Callers -> SaveRequests] :
          ExecIdle([c \in Callers |-> "ExecuteAndSave"], reqs)
    /\ SaveIdle
    /\ AuthIdle
    /\ ValIdle
    /\ RepoIdle
    /\ CloneIdle

NextSave ==
    \E c \in Callers :
        \/ CallExecuteAndSave(c)
        \/ SvValidate(c)
        \/ SvExecute(c)
        \/ ExecuteStep(c)
        \/ SvExecuteReturns(c)
        \/ SvSave(c)
        \/ SvReturn(c)
        \/ SaveRequest(c)
        \/ CancelCtx(c)

SpecSave == InitSave /\ [][NextSave]_vars

(***************************************************************************)
(* AuthConfig.Apply called on a wire request, for every variant.           *)
(***************************************************************************)
FieldValues == {Empty, Blank, <<"k">>}

AuthSamples ==
    {NoAuth}
    \cup {BasicAuth(u, pw) : u \in FieldValues, pw \in FieldValues}
    \cup {BearerAuth(t) : t \in FieldValues}
    \cup {APIKeyAuth(k, v, l) : k \in FieldValues, v \in FieldValues,
                                l \in {APIKeyLocationHeader, APIKeyLocationQuery, "cookie"}}

WireValue(header, query) ==
    [Method |-> MethodGet,
     URL |-> [Scheme |-> "http", Host |-> "h", Path |-> "/p", Query |-> query,
              Fragment |-> "f"],
     Header |-> header, HasBody |-> FALSE, ContentLength |-> 0]

WireSamples ==
    { WireValue(<<>>, <<>>),
      WireValue(AuthorizationHeader :> <<"o","l","d">>, <<>>),
      WireValue(<<"K">> :> <<"o","l","d">>, <<"k">> :> << <<"o","l","d">> >>),
      WireValue(<<>>, <<"k">> :> << <<"1">>, <<"2">> >> @@ <<"j">> :> << <<"7">> >>) }

InitAuth ==
    /\ RestIdle
    /\ config = [FollowRedirects |-> TRUE, MaxRedirects |-> MaxRedirectsBound]
    /\ \E reqs \in [Callers -> ExecRequests] :
          /\ \A c \in Callers : reqs[c].ID = ""
          /\ ExecIdle([c \in Callers |-> "Execute"], reqs)
    /\ SaveIdle
    /\ authIn \in AuthSamples
    /\ wireIn \in WireSamples
    /\ applyOut = [called |-> FALSE, err |-> Nil, wire |-> EmptyWire]
    /\ ValIdle
    /\ RepoIdle
    /\ CloneIdle

\* err := auth.Apply(httpReq)
ApplyAuth ==
    /\ ~applyOut.called
    /\ applyOut' = [called |-> TRUE,
                    err |-> AuthApply(authIn, wireIn).err,
                    wire |-> AuthApply(authIn, wireIn).wire]
    /\ UNCHANGED <<authIn, wireIn>>
    /\ UNCHANGED <<execVars, saveVars, valVars, repoVars, cloneVars, restVars>>

NextAuth == ApplyAuth

SpecAuth == InitAuth /\ [][NextAuth]_vars

(***************************************************************************)
(* Request.Validate called on a request.                                   *)
(***************************************************************************)
ValidateSamples ==
    { NewRequest("r1", m, u, h, q, Empty, a) :
        m \in {MethodGet, <<"g","e","t">>, Empty, Blank, <<"B","O","G","U","S">>},
        u \in {GoodURL, QueryURL, BlankURL, UnparsableURL, FtpURL, NoHostURL},
        h \in {NoMap, OneHeader, <<"a",":">> :> <<"v">>, Blank :> <<"v">>,
               <<"a","\n">> :> <<"v">>},
        q \in {NoMap, <<"k">> :> <<"2">>, Blank :> <<"2">>},
        a \in {NilAuth, NoAuth, BearerAuth(<<"t">>), BearerAuth(Blank),
               BasicAuth(<<"u">>, Empty),
               APIKeyAuth(<<"k">>, <<"v">>, "cookie")} }

InitValidate ==
    /\ RestIdle
    /\ config = [FollowRedirects |-> TRUE, MaxRedirects |-> MaxRedirectsBound]
    /\ \E reqs \in [Callers -> ExecRequests] :
          /\ \A c \in Callers : reqs[c].ID = ""
          /\ ExecIdle([c \in Callers |-> "Execute"], reqs)
    /\ SaveIdle
    /\ AuthIdle
    /\ RepoIdle
    /\ CloneIdle
    /\ vReq \in ValidateSamples
    /\ vOut = [called |-> FALSE, err |-> Nil]

\* err := req.Validate()
ValidateRequest ==
    /\ ~vOut.called
    /\ vOut' = [called |-> TRUE, err |-> RequestValidate(vReq)]
    /\ UNCHANGED vReq
    /\ UNCHANGED <<execVars, saveVars, authVars, repoVars, cloneVars, restVars>>

NextValidate == ValidateRequest

SpecValidate == InitValidate /\ [][NextValidate]_vars

(***************************************************************************)
(* Requests stored through RequestRepository and loaded back; the table    *)
(* may hold a row that another writer left, under the id "x0".             *)
(***************************************************************************)
RepoStrings == {<<"k">>, <<"a", "\"", "b">>, <<"\\", "n">>, <<"<", "\n">>, <<InvalidByte>>}

RepoAuths ==
    {NilAuth, NoAuth}
    \cup {BasicAuth(u, pw) : u \in RepoStrings, pw \in RepoStrings \cup {Blank, Empty}}
    \cup {BearerAuth(t) : t \in RepoStrings \cup {Blank}}
    \cup {APIKeyAuth(k, v, l) : k \in {<<"k">>, <<"a", "\"", "b">>},
                                v \in {<<"k">>, <<"\\", "n">>, Blank},
                                l \in {APIKeyLocationHeader, APIKeyLocationQuery, "cookie"}}

StoredRows ==
    [auth_type : {"", "none", "basic", "bearer", "apikey", "oauth", "Basic", NullColumn},
     auth_config : {JSONObject(<<>>), JSONObject("token" :> JSONString(<<"k">>)),
                    MalformedJSON}]

InitRepo ==
    /\ RestIdle
    /\ config = [FollowRedirects |-> TRUE, MaxRedirects |-> MaxRedirectsBound]
    /\ \E reqs \in [Callers -> ExecRequests] :
          /\ \A c \in Callers : reqs[c].ID = ""
          /\ ExecIdle([c \in Callers |-> "Execute"], reqs)
    /\ SaveIdle
    /\ AuthIdle
    /\ ValIdle
    /\ CloneIdle
    /\ \E row \in StoredRows : table = ("x0" :> row)
    /\ \E a \in RepoAuths :
          toCreate = NewRequest("r1", MethodGet, GoodURL, NoMap, NoMap, Empty, a)
    /\ created = [called |-> FALSE, err |-> Nil]
    /\ found = NothingFound

NextRepo ==
    \/ RepoCreate
    \/ \E id \in {"x0", "r1"} : RepoFindByID(id)

SpecRepo == InitRepo /\ [][NextRepo]_vars

(***************************************************************************)
(* A request, its clone, and setters called on either in any order.        *)
(***************************************************************************)
MapSamples == {NoMap, <<"a">> :> <<"1">>, <<"a">> :> <<"1">> @@ <<"b">> :> <<"2">>}
SetNames == {<<"a">>, <<"b">>}
SetValues == {Empty, <<"1">>, <<"3">>}

InitClone ==
    /\ RestIdle
    /\ config = [FollowRedirects |-> TRUE, MaxRedirects |-> MaxRedirectsBound]
    /\ \E reqs \in [Callers -> ExecRequests] :
          /\ \A c \in Callers : reqs[c].ID = ""
          /\ ExecIdle([c \in Callers |-> "Execute"], reqs)
    /\ SaveIdle
    /\ AuthIdle
    /\ ValIdle
    /\ RepoIdle
    /\ \E h \in MapSamples, q \in MapSamples :
          /\ \/ heap = <<h, q>> /\ original = [Headers |-> 1, QueryParams |-> 2]
             \/ /\ h = NoMap /\ q = NoMap
                /\ heap = <<>> /\ original = [Headers |-> 0, QueryParams |-> 0]
          /\ expected = [original |-> [Headers |-> h, QueryParams |-> q],
                         clone |-> [Headers |-> <<>>, QueryParams |-> <<>>]]
    /\ clone = NoClone

NextClone ==
    \/ CloneRequest
    \/ \E f \in MapFields, n \in SetNames, v \in SetValues : SetOnOriginal(f, n, v)
    \/ \E f \in MapFields, n \in SetNames, v \in SetValues : SetOnClone(f, n, v)

SpecClone == InitClone /\ [][NextClone]_vars

(***************************************************************************)
(* One call of Execute up to the wire request it builds, over requests of  *)
(* every method, with and without a body, a query in the URL and query     *)
(* parameters.                                                             *)
(***************************************************************************)
TwoKeyURL ==
    URLValue(FALSE, FALSE, "http", "h",
             <<"k">> :> << <<"1">>, <<"9">> >> @@ <<"j">> :> << <<"7">> >>)

BuildMethods ==
    {SupportedMethods[i] : i \in 1..Len(SupportedMethods)}
    \cup {<<"p", "o", "s", "t">>, <<"P", "a", "t", "c", "h">>, <<"g", "e", "t">>}

BuildRequests ==
    { NewRequest("r1", m, u, NoMap, q, b, NilAuth) :
        m \in BuildMethods,
        u \in {GoodURL, QueryURL, TwoKeyURL},
        q \in {NoMap, <<"k">> :> <<"2">>, <<"k">> :> <<"2">> @@ <<"n">> :> <<"3">>,
               <<"j">> :> Empty},
        b \in {Empty, <<"b">>, <<" ", "b">>} }

InitBuild ==
    /\ RestIdle
    /\ config = [FollowRedirects |-> TRUE, MaxRedirects |-> MaxRedirectsBound]
    /\ \E r \in BuildRequests :
          ExecIdle("c1" :> "Execute" @@ "c2" :> "idle",
                   "c1" :> r @@ "c2" :> NewRequest("", MethodGet, GoodURL, NoMap, NoMap,
                                                   Empty, NilAuth))
    /\ SaveIdle
    /\ AuthIdle
    /\ ValIdle
    /\ RepoIdle
    /\ CloneIdle

NextBuild ==
    \E c \in Callers :
        \/ CallExecute(c)
        \/ ExecValidate(c)
        \/ ExecBuild(c)

SpecBuild == InitBuild /\ [][NextBuild]_vars

(***************************************************************************)
(* Nothing of the client, the service, the repository or the clone runs.   *)
(***************************************************************************)
CoreIdle ==
    /\ config = [FollowRedirects |-> TRUE, MaxRedirects |-> MaxRedirectsBound]
    /\ ExecIdle([c \in Callers |-> "idle"],
                [c \in Callers |-> NewRequest("", MethodGet, GoodURL, NoMap, NoMap,
                                              Empty, NilAuth)])
    /\ SaveIdle
    /\ AuthIdle
    /\ ValIdle
    /\ RepoIdle
    /\ CloneIdle

(***************************************************************************)
(* runMigrations called any number of times, by one handle after the other *)
(* or by two at once, over a directory that gains files: migrations that   *)
(* succeed, one whose second statement is invalid, and a file that repeats *)
(* the version of another ("001_first.sql" and "1_again.sql").             *)
(***************************************************************************)
MigrationPool ==
    { Migration(1, "first", <<CreateTable("table1")>>),
      Migration(2, "second", <<CreateTable("table2"), CreateTable("index2")>>),
      Migration(3, "broken", <<CreateTable("table3"), InvalidStatement>>),
      Migration(1, "again", <<CreateTableIfNotExists("table1"), CreateTable("table9")>>) }

InitMigrate ==
    /\ CoreIdle
    /\ RespIdle
    /\ UIIdle
    /\ SavingIdle
    /\ files \in {{Migration(1, "first", <<CreateTable("table1")>>)}, {}}
    /\ db = EmptyDB
    /\ writer = "none"
    /\ run = [r \in Runners |-> NotRunning]
    /\ commitCount = [v \in {m.Version : m \in MigrationPool} |-> 0]

NextMigrate ==
    \/ \E r \in Runners :
          \/ RunMigrations(r)
          \/ LoadMigrations(r)
          \/ GetAppliedMigrations(r)
          \/ NextMigration(r)
          \/ ExecMigrationSQL(r)
          \/ ExecMigrationSQLBusy(r)
          \/ RecordMigration(r)
          \/ CommitMigration(r)
          \/ CommitMigrationFails(r)
    \/ \E m \in MigrationPool : AddMigrationFile(m)

SpecMigrate == InitMigrate /\ [][NextMigrate]_vars

(***************************************************************************)
(* The predicates of a Response, over status codes inside and outside      *)
(* 100..599 and over header maps with keys in several cases and with an    *)
(* empty value.                                                            *)
(***************************************************************************)
StatusCodes == (-2)..701

HeaderNames ==
    {<<"X", "-", "a">>, <<"x", "-", "a">>, <<"X", "-", "A">>, <<"x", "-", "b">>, <<"x">>}

HeaderSamples ==
    { NoMap,
      <<"X", "-", "a">> :> <<"v">>,
      <<"x", "-", "a">> :> <<"v">> @@ <<"x", "-", "b">> :> <<"w">>,
      <<"X", "-", "a">> :> Empty,
      <<"X", "-", "a">> :> Empty @@ <<"X", "-", "A">> :> <<"v">>,
      <<"X", "-", "a">> :> <<"v">> @@ <<"X", "-", "A">> :> <<"w">> }

InitResponse ==
    /\ CoreIdle
    /\ MigIdle
    /\ UIIdle
    /\ SavingIdle
    /\ resp \in [StatusCode : StatusCodes, Headers : HeaderSamples]
    /\ answer = NoAnswer

NextResponse ==
    \/ \E name \in HeaderNames : CallHasHeader(name)
    \/ CallStatusPredicates

SpecResponse == InitResponse /\ [][NextResponse]_vars

(***************************************************************************)
(* The program running: keys, commands and their messages in any           *)
(* order, over a history table that is empty when the program starts.      *)
(* The keys are the global keys, the send keys and keys that edit the URL. *)
(***************************************************************************)
UIKeys ==
    {KeyCtrlC, "q", "?", "esc", "tab", "shift+tab", "1", "2", "3", "ctrl+enter",
     "ctrl+r", "enter", "x", "backspace"}

StartProgram(stored) ==
    /\ model = NewMainModel
    /\ running = SetToBag({Cmd("loadHistory")})
    /\ inbox = EmptyBag
    /\ store = stored
    /\ issued = 0
    /\ quit = FALSE
    /\ lastMsg = WindowSizeMsg

InitUI ==
    /\ CoreIdle
    /\ MigIdle
    /\ RespIdle
    /\ SavingIdle
    /\ StartProgram({})

NextUI ==
    \/ \E k \in UIKeys : PressKey(k)
    \/ \E c \in BagToSet(running) : RunCommand(c)
    \/ \E msg \in BagToSet(inbox) : Deliver(msg)

SpecUI == InitUI /\ [][NextUI]_vars

(***************************************************************************)
(* MainModel.Update on its own: any message at any time.                   *)
(***************************************************************************)
MainKeys ==
    {KeyCtrlC, "q", "?", "esc", "tab", "shift+tab", "1", "2", "3", "ctrl+r", "x", "h",
     "d", "down"}

Messages ==
    {KeyMsg(k) : k \in MainKeys}
        \cup {WindowSizeMsg, HistoryDeletedMsg(TRUE), HistoryDeletedMsg(FALSE),
              RequestSentMsg(TRUE), RequestSentMsg(FALSE), HistoryLoadedMsg(FALSE, <<>>)}
        \cup {HistoryLoadedMsg(TRUE, ListDesc(S)) : S \in {{}, EarlierEntries}}

InitMain ==
    /\ CoreIdle
    /\ MigIdle
    /\ RespIdle
    /\ SavingIdle
    /\ StartProgram({})

NextMain == \E msg \in Messages : MainReceives(msg)

SpecMain == InitMain /\ [][NextMain]_vars

(***************************************************************************)
(* HistoryModel.Update on its own: every key and every result of its       *)
(* commands, over a history table of up to three entries.                  *)
(***************************************************************************)
HistoryKeys ==
    {KeyCtrlC, "up", "k", "down", "j", "enter", "delete", "d", "r", "home", "g", "end",
     "G", "x"}

InitHistory ==
    /\ CoreIdle
    /\ MigIdle
    /\ RespIdle
    /\ SavingIdle
    /\ \E stored \in {{}, {1}, EarlierEntries} : StartProgram(stored)

NextHistory ==
    \/ \E k \in HistoryKeys : HistoryPressKey(k)
    \/ \E c \in BagToSet(running) : RunCommand(c)
    \/ \E msg \in BagToSet(inbox) : HistoryDeliver(msg)

SpecHistory == InitHistory /\ [][NextHistory]_vars

(***************************************************************************)
(* Two callers of SaveRequest on one service, over a requests table that   *)
(* starts empty.  Each saves one request: one of two valid requests with   *)
(* the id "r1", a valid request with another id, or an invalid request.    *)
(***************************************************************************)
SavedRequests ==
    { NewRequest("r1", MethodGet, GoodURL, NoMap, NoMap, Empty, NoAuth),
      NewRequest("r1", MethodPost, GoodURL, NoMap, NoMap, Empty, NilAuth),
      NewRequest("r2", MethodGet, GoodURL, NoMap, NoMap, Empty, NoAuth),
      NewRequest("r1", <<"B","O","G","U","S">>, GoodURL, NoMap, NoMap, Empty, NoAuth) }

InitSaveRequest ==
    /\ CoreIdle
    /\ MigIdle
    /\ RespIdle
    /\ UIIdle
    /\ SavingIdle

NextSaveRequest ==
    \E s \in Savers :
        \/ \E r \in SavedRequests : SaveRequestCall(s, r)
        \/ SaveRequestFind(s)
        \/ SaveRequestUpdate(s)
        \/ SaveRequestCreate(s)

SpecSaveRequest == InitSaveRequest /\ [][NextSaveRequest]_vars

(***************************************************************************)
(* Execute as one sequential computation: the value the call returns when  *)
(* it runs with nothing else running, from the client's config, the        *)
(* request, and what the transport and the body reader meet (met), in      *)
(* order.  NoResult: with only these answers the call has not returned.    *)
(***************************************************************************)
ConvertAlone(r, met, i, status) ==
    IF i > Len(met) THEN NoResult
    ELSE IF met[i] = "bodyRead" THEN ResponseResult(status, r.ID)
    ELSE ErrorResult("failed to process response", met[i])

RECURSIVE DoAlone(_, _, _, _, _)
DoAlone(cfg, r, met, i, viaLen) ==
    IF i > Len(met) THEN NoResult
    ELSE IF met[i] = "sent" THEN DoAlone(cfg, r, met, i + 1, viaLen + 1)
    ELSE IF met[i] = "final" THEN ConvertAlone(r, met, i + 1, 200)
    ELSE IF met[i] = "redirect"
         THEN IF ~cfg.FollowRedirects THEN ConvertAlone(r, met, i + 1, 302)
              ELSE IF viaLen >= cfg.MaxRedirects
                   THEN ErrorResult(HandleRequestError(DoError("redirectPolicy")),
                                    "redirectPolicy")
              ELSE DoAlone(cfg, r, met, i + 1, viaLen)
    ELSE ErrorResult(HandleRequestError(DoError(met[i])), met[i])

ExecuteAlone(cfg, r, met) ==
    IF RequestValidate(r) # Nil THEN ErrorResult("invalid request", RequestValidate(r))
    ELSE IF BuildHTTPRequest(r).err # Nil
         THEN ErrorResult("failed to build HTTP request", BuildHTTPRequest(r).err)
    ELSE IF r.AuthConfig # NilAuth /\ AuthApply(r.AuthConfig, BuildHTTPRequest(r).wire).err # Nil
         THEN ErrorResult("failed to apply authentication",
                          AuthApply(r.AuthConfig, BuildHTTPRequest(r).wire).err)
    ELSE DoAlone(cfg, r, met, 1, 0)

(***************************************************************************)
(* Claims about Execute, checked under Spec.                               *)
(***************************************************************************)
\* C1: whenever Execute has returned a request-validation error or an
\* authentication-apply error, client.Do was not called during that call and
\* the transport sent nothing.
C1_NoTransportBeforeValidationOrAuthError ==
    \A c \in Callers :
        (result[c].returned
         /\ result[c].err \in {"invalid request", "failed to apply authentication"})
        => (doCalls[c] = 0 /\ ~netStarted[c])

\* C1 witness: a call has returned a validation error.
C1_Witness ==
    \E c \in Callers :
        /\ result[c].returned
        /\ result[c].err = "invalid request"
        /\ doCalls[c] = 0

\* C2: with follow-redirects enabled and maxRedirects = N, a call fails with the
\* too-many-redirects error only when the chain needed more than N redirects
\* (the server sent it more than N redirect responses), and it never follows
\* more than N redirects.
C2_FollowsUpToMaxRedirects ==
    \A c \in Callers :
        (result[c].returned /\ config.FollowRedirects)
        => /\ (result[c].cause = "redirectPolicy" => seen[c] > config.MaxRedirects)
           /\ (via[c] > 0 => via[c] - 1 <= config.MaxRedirects)

\* C6: when the context is cancelled, or its deadline passes, while the network
\* call is in progress and Execute returns an error, the error is of the
\* cancellation kind, or of the timeout kind.
C6_CancelDuringCallIsClassified ==
    \A c \in Callers :
        (result[c].returned /\ result[c].err # Nil /\ netStarted[c]
         /\ ctxAtCall[c] = "live")
        => /\ (ctx[c] = "canceled" => result[c].err = "request canceled")
           /\ (ctx[c] = "deadline" => result[c].err = "request timeout")

C10_ConcurrentCallsIndependent ==
    \A c \in Callers :
        result[c].returned => result[c] = ExecuteAlone(config, req[c], trace[c])

\* C10 witness: both calls have returned after following a redirect each, with
\* different results.
C10_Witness ==
    /\ \A c \in Callers : result[c].returned /\ via[c] >= 2
    /\ result["c1"] # result["c2"]

(***************************************************************************)
(* Claims about ExecuteAndSave, checked under SpecSave.                    *)
(***************************************************************************)
\* C3: for every ExecuteAndSave call whose request passes validation, exactly
\* one history Save is attempted, and it is attempted after Execute has
\* returned, whether Execute returned a response or an error.
C3_OneSaveAfterExecution ==
    \A c \in Callers :
        /\ saveAttempts[c] <= 1
        /\ saveAttempts[c] > 0 => (savedAfter[c] /\ result[c].returned)
        /\ (svStep[c] = SvReturned /\ RequestValidate(req[c]) = Nil)
           => saveAttempts[c] = 1

\* C3 witness: ExecuteAndSave has returned after an execution that failed, and
\* its Save was attempted.
C3_Witness ==
    \E c \in Callers :
        /\ svStep[c] = SvReturned
        /\ result[c].returned
        /\ result[c].err # Nil
        /\ saveAttempts[c] = 1

\* C4: what ExecuteAndSave returns is decided by the HTTP execution alone: two
\* calls whose executions returned the same value return the same value,
\* whether their history Saves succeeded or failed.
C4_SaveOutcomeDoesNotChangeResult ==
    \A c1, c2 \in Callers :
        (/\ svStep[c1] = SvReturned /\ svStep[c2] = SvReturned
         /\ result[c1].returned /\ result[c2].returned
         /\ result[c1] = result[c2])
        => svResult[c1] = svResult[c2]

\* C4 witness: two calls have returned whose executions returned the same
\* value, the Save of one succeeded and the Save of the other failed.
C4_Witness ==
    \E c1, c2 \in Callers :
        /\ svStep[c1] = SvReturned /\ svStep[c2] = SvReturned
        /\ result[c1].returned /\ result[c2].returned
        /\ result[c1] = result[c2]
        /\ saveAttempts[c1] = 1 /\ saveAttempts[c2] = 1
        /\ saveErr[c1] = Nil
        /\ saveErr[c2] # Nil

\* C5: after ExecuteAndSave has returned for a valid request, the history table
\* holds an entry for that execution.
C5_EveryExecutionInHistory ==
    \A c \in Callers :
        (svStep[c] = SvReturned /\ RequestValidate(req[c]) = Nil)
        => \E e \in history : e.ID = c /\ e.RequestID = req[c].ID

(***************************************************************************)
(* Claims about the authentication strategies, checked under SpecAuth.     *)
(***************************************************************************)
\* C8: for every auth variant, when Validate fails, Apply returns an error and
\* leaves the wire request, its headers and its URL, as it was; Apply changes
\* the wire request only when the strategy is valid.
C8_ApplyLeavesWireWhenInvalid ==
    applyOut.called =>
        /\ AuthValidate(authIn) # Nil => (applyOut.err # Nil /\ applyOut.wire = wireIn)
        /\ applyOut.wire # wireIn => (AuthValidate(authIn) = Nil /\ applyOut.err = Nil)

\* C8 witness: Apply has been called on a BasicAuth whose Validate fails.
C8_Witness ==
    /\ applyOut.called
    /\ authIn.Type = "basic"
    /\ AuthValidate(authIn) # Nil
    /\ applyOut.err # Nil

(***************************************************************************)
(* Claims about Request.Validate, checked under SpecValidate.              *)
(***************************************************************************)
\* The checks of a request in the order the claim gives: method, URL, header
\* names, query-parameter names, and the auth strategy when one is present.
ChecksInOrder(r) ==
    <<ValidateMethod(r), ValidateURL(r), ValidateHeaders(r), ValidateQueryParams(r),
      IF r.AuthConfig = NilAuth THEN Nil ELSE AuthValidate(r.AuthConfig)>>

FailingChecks(r) == {i \in 1..Len(ChecksInOrder(r)) : ChecksInOrder(r)[i] # Nil}

\* C9: Validate returns the error of the first check that fails, in the order
\* method, URL, header names, query-parameter names, auth strategy, and nil when
\* none fails.
C9_FirstFailingCheckReported ==
    vOut.called =>
        IF FailingChecks(vReq) = {} THEN vOut.err = Nil
        ELSE \E i \in FailingChecks(vReq) :
                /\ \A j \in FailingChecks(vReq) : i <= j
                /\ vOut.err = ChecksInOrder(vReq)[i]

\* C9 witness: Validate has been called on a request that fails both the
\* method check and the URL check, and the method error was returned.
C9_Witness ==
    /\ vOut.called
    /\ {1, 2} \subseteq FailingChecks(vReq)
    /\ vOut.err = ValidateMethod(vReq)

(***************************************************************************)
(* Claims about the requests table, checked under SpecRepo.                *)
(***************************************************************************)
KnownAuthTypes == {"none", "basic", "bearer", "apikey"}

\* C11: loading a stored row whose discriminator is absent or is none of
\* "none", "basic", "bearer", "apikey" yields the no-auth variant and no error.
C11_UnknownDiscriminatorIsNoAuth ==
    (found.called /\ found.err # "ErrNotFound"
     /\ table[found.id].auth_type \notin KnownAuthTypes)
    => (found.err = Nil /\ found.auth = NoAuth)

\* C11 as amended: an empty discriminator, like "none", yields the no-auth
\* variant and no error; a discriminator that is neither empty nor one of the
\* four, and a NULL one, yield an error and no strategy.
C11_AbsentIsNoAuthUnknownIsError ==
    (found.called /\ found.err # "ErrNotFound")
    => /\ table[found.id].auth_type \in {"", "none"}
          => (found.err = Nil /\ found.auth = NoAuth)
       /\ table[found.id].auth_type \notin KnownAuthTypes \cup {""}
          => /\ found.err \in {"failed to deserialize auth config",
                             "failed to scan request"}
             /\ found.auth = NilAuth

\* C11 witness: a row with the discriminator "oauth" was loaded and an error
\* returned.
C11_Witness ==
    /\ found.called
    /\ found.id = "x0"
    /\ table["x0"].auth_type = "oauth"
    /\ found.err # Nil

\* C15: for every auth variant, a request created in the table and then found
\* by its id carries a strategy of the same variant with the same field values.
C15_AuthRoundTrip ==
    (created.called /\ created.err = Nil /\ toCreate.AuthConfig # NilAuth
     /\ found.called /\ found.id = toCreate.ID /\ found.err # "ErrNotFound")
    => (found.err = Nil /\ found.auth = toCreate.AuthConfig)

(***************************************************************************)
(* More claims about Execute, checked under Spec.                          *)
(***************************************************************************)
\* C12: with FollowRedirects off, whatever MaxRedirects is, a call never follows
\* a redirect and never fails by the redirect policy, and a call that met a
\* redirect response returns it as a Response with no error (unless reading
\* its body failed).
C12_RedirectReturnedWhenNotFollowing ==
    \A c \in Callers :
        ~config.FollowRedirects
        => /\ via[c] <= 1
           /\ result[c].cause # "redirectPolicy"
           /\ (result[c].returned /\ \E i \in 1..Len(trace[c]) : trace[c][i] = "redirect")
              => \/ result[c].err = Nil /\ result[c].StatusCode = 302
                 \/ result[c].err = "failed to process response"

\* C12 witness: with FollowRedirects off and MaxRedirects 0 a call has returned
\* the redirect response.
C12_Witness ==
    \E c \in Callers :
        /\ ~config.FollowRedirects
        /\ config.MaxRedirects = 0
        /\ result[c].returned
        /\ result[c].err = Nil
        /\ result[c].StatusCode = 302

\* C13: every error Execute returns after client.Do was called carries the
\* elapsed duration of the call.
C13_ExecutionErrorsCarryDuration ==
    \A c \in Callers :
        (result[c].returned /\ result[c].err # Nil /\ doCalls[c] > 0)
        => CarriesDuration(result[c].err)

\* C13 as amended: of the errors Execute returns after client.Do was called,
\* those client.Do returned for a passed deadline or for the client's own
\* timeout are timeout errors and carry the elapsed duration; the others
\* (cancellation, temporary, DNS, connection, generic, and a failure to read
\* the body) carry none.
C13_OnlyTimeoutsCarryDuration ==
    \A c \in Callers :
        (result[c].returned /\ result[c].err # Nil /\ doCalls[c] > 0)
        => (CarriesDuration(result[c].err)
            <=> /\ result[c].cause \in {"ctxDeadline", "clientTimeout"}
                /\ result[c].err # "failed to process response")

\* C13 witness: one call has returned a timeout of the client and another a DNS
\* failure.
C13_Witness ==
    \E c1, c2 \in Callers :
        /\ result[c1].returned /\ result[c1].cause = "clientTimeout"
        /\ CarriesDuration(result[c1].err)
        /\ result[c2].returned /\ result[c2].cause = "dns"
        /\ ~CarriesDuration(result[c2].err)

(***************************************************************************)
(* More claims about ExecuteAndSave, checked under SpecSave.               *)
(***************************************************************************)
\* C14: when the request fails validation, ExecuteAndSave returns the
\* validation error, the HTTP client's Execute is never called and no history
\* Save is attempted.
C14_InvalidRequestNeitherExecutedNorSaved ==
    \A c \in Callers :
        (svStep[c] = SvReturned /\ RequestValidate(req[c]) # Nil)
        => /\ svResult[c] = ErrorResult("invalid request", RequestValidate(req[c]))
           /\ step[c] = 0
           /\ doCalls[c] = 0
           /\ saveAttempts[c] = 0
           /\ \A e \in history : e.ID # c

\* C14 witness: ExecuteAndSave has returned for a request that fails
\* validation.
C14_Witness ==
    \E c \in Callers :
        /\ svStep[c] = SvReturned
        /\ RequestValidate(req[c]) # Nil
        /\ svResult[c].err = "invalid request"

(***************************************************************************)
(* Claims about the wire request, checked under SpecBuild.                 *)
(***************************************************************************)
\* buildHTTPRequest has returned the wire request of the call.
Built(c) == wire[c] # EmptyWire

\* C16: the wire request carries a body exactly when its method is POST, PUT or
\* PATCH and the request's body is not empty; for every other method no body is
\* sent even when the request has one.
C16_BodyOnlyForPostPutPatch ==
    \A c \in Callers :
        Built(c)
        => /\ wire[c].HasBody
              <=> /\ wire[c].Method \in {MethodPost, MethodPut, MethodPatch}
                  /\ req[c].Body # <<>>
           /\ wire[c].ContentLength = IF wire[c].HasBody THEN Len(req[c].Body) ELSE 0

\* C16 witness: a request written with the method "post" and a body was built
\* with the body.
C16_Witness ==
    \E c \in Callers :
        /\ Built(c)
        /\ req[c].Method = <<"p", "o", "s", "t">>
        /\ req[c].Body # <<>>
        /\ wire[c].HasBody

C19_BasicValidIffBothNonBlank ==
    (applyOut.called /\ authIn.Type = "basic")
    => (applyOut.err = Nil
        <=> (TrimSpace(authIn.Username) # <<>> /\ TrimSpace(authIn.Password) # <<>>))

(***************************************************************************)
(* Claims about Clone, checked under SpecClone.                            *)
(***************************************************************************)
\* C20: after Clone, whatever setters are called on the clone and on the
\* original, in any order, the headers and the query parameters of each hold
\* what the setters called on that one alone make of them.
C20_CloneMapsIndependent ==
    clone.made
    => \A f \in MapFields :
          /\ Content(original, f) = expected.original[f]
          /\ Content(clone, f) = expected.clone[f]

\* C20 witness: after Clone, setters have left the original and the clone with
\* different headers and different query parameters.
C20_Witness ==
    /\ clone.made
    /\ \A f \in MapFields :
          /\ Content(original, f) # Content(clone, f)
          /\ Content(original, f) # <<>>
          /\ Content(clone, f) # <<>>

(***************************************************************************)
(* Migrations.                                                             *)
(***************************************************************************)
\* The run of runner r has returned and found every migration's version in
\* schema_migrations, in a database that had the tracking table.
UpToDateRun(r) ==
    /\ run[r].pc = "done"
    /\ ~run[r].fresh
    /\ Versions(run[r].migrations) \subseteq run[r].applied

\* C21: however often and by however many handles migrations are run, a
\* migration of each version is committed at most once; a run never calls
\* applyMigration for a version it found recorded, and commits only versions
\* it found pending; a run that found every version recorded returns nil,
\* having begun no transaction.
C21_EachVersionAppliedOnce ==
    /\ \A v \in DOMAIN commitCount : commitCount[v] <= 1
    /\ \A r \in Runners :
          /\ run[r].attempted \cap run[r].applied = {}
          /\ run[r].commits \subseteq run[r].attempted
          /\ UpToDateRun(r) => run[r].err = Nil /\ run[r].attempted = {}

\* One run skipped the recorded versions and applied a pending one; another
\* run, later, found nothing pending.
C21_Witness ==
    \E r1, r2 \in Runners :
        /\ r1 # r2
        /\ UpToDateRun(r1) /\ run[r1].applied # {}
        /\ run[r2].pc = "done" /\ run[r2].applied # {} /\ run[r2].commits # {}
        /\ \E v \in DOMAIN commitCount : commitCount[v] = 1

\* The schema objects a migration names, and those it would add to a
\* database.
Objects(m) == {m.SQL[i].obj : i \in {j \in 1..Len(m.SQL) : m.SQL[j].op = "create"}}
Created(m, before) == ExecStatements(before.schema, m.SQL).schema \ before.schema

\* C22 as stated: when applyMigration fails at its SQL or at recording, the
\* database holds neither a schema change of the migration nor its version.
C22_FailedMigrationNotRecorded ==
    \A r \in Runners :
        LET a == run[r].last
        IN (a.made /\ a.err \in {"failed to execute migration SQL",
                                 "failed to record migration"})
           => /\ a.migration.Version \notin DOMAIN a.after.versions
              /\ Created(a.migration, a.before) \cap a.after.schema = {}

\* C22 as amended: a failed applyMigration (SQL, recording or commit) leaves
\* the database as it was when the attempt took the write lock; a successful
\* one adds the row of the version and every schema change of the migration
\* together; and each row of schema_migrations stands with all the objects
\* of the migration that added it.
C22_AttemptAllOrNothing ==
    /\ \A r \in Runners :
          LET a == run[r].last
              out == ExecStatements(a.before.schema, a.migration.SQL)
          IN a.made =>
               IF a.err # Nil
               THEN a.after = a.before
               ELSE /\ out.ok
                    /\ a.migration.Version \notin DOMAIN a.before.versions
                    /\ a.after = [a.before EXCEPT
                                    !.schema = out.schema,
                                    !.versions = @ @@ (a.migration.Version :>
                                                       a.migration.Name)]
    /\ \A v \in DOMAIN db.versions :
          \E m \in MigrationPool :
              /\ m.Version = v /\ m.Name = db.versions[v]
              /\ Objects(m) \subseteq db.schema

\* One attempt failed at recording after its SQL had made changes in the
\* transaction, another failed in the middle of its SQL.
C22_Witness ==
    \E r1, r2 \in Runners :
        /\ run[r1].last.made /\ run[r1].last.err = "failed to record migration"
        /\ run[r1].tx.schema # run[r1].last.before.schema
        /\ run[r2].last.made /\ run[r2].last.err = "failed to execute migration SQL"
        /\ Created(run[r2].last.migration, run[r2].last.before) # {}

(***************************************************************************)
(* Response predicates.                                                    *)
(***************************************************************************)
\* C23: HasHeader(name) returns true exactly when the header map has a key
\* equal to name without regard to case, whatever the value under that key.
C23_HasHeaderIffKeyPresent ==
    answer.op = "HasHeader" =>
        (answer.has <=> \E k \in DOMAIN resp.Headers : EqualsFold(k, answer.name))

\* C24: of IsInformational, IsSuccess, IsRedirect, IsClientError and
\* IsServerError at most one holds for a status code, exactly one for a code
\* in 100..599 and none for a code outside; IsError holds exactly when
\* IsClientError or IsServerError does.
C24_StatusClassesPartition ==
    answer.op = "StatusClass" =>
        LET holding == {i \in 1..5 : answer.classes[i]}
        IN /\ Cardinality(holding) <= 1
           /\ Cardinality(holding) = 1 <=>
                 (resp.StatusCode >= 100 /\ resp.StatusCode <= 599)
           /\ answer.error <=> (answer.classes[4] \/ answer.classes[5])

\* The predicates were called on a response with the last code of the 5xx
\* range.
C24_Witness ==
    /\ answer.op = "StatusClass"
    /\ resp.StatusCode = 599
    /\ answer.error
    /\ answer.classes[5]


\* The executions of ExecuteAndSave in flight: started by a send, not yet
\* returned.
InFlight == {c \in BagToSet(running) : c.kind = "executeAndSave"}

\* C25: while the Request tab is active and the help screen is hidden,
\* pressing Tab moves the focus of the request form to the next field,
\* wrapping from the last field to the first.
C25_TabMovesFormFocus ==
    (model.activeTab = TabRequest /\ ~model.showHelp)
        => MainUpdate(model, KeyMsg("tab")).m.requestModel.focusedField
               = (model.requestModel.focusedField + 1) % fieldCount

\* C26: pressing Ctrl+C or q quits the program from every state of the
\* interface: any tab, help shown or hidden, a request in flight or not.
C26_QuitKeysAlwaysQuit ==
    \A k \in {KeyCtrlC, "q"} : MainUpdate(model, KeyMsg(k)).cmd = QuitCmd

\* C27: the request form never has two executions of ExecuteAndSave in
\* flight at once.
C27_AtMostOneExecutionInFlight == Cardinality(InFlight) <= 1


\* C29: after any sequence of key presses and results of history loads and
\* deletions processed by HistoryModel.Update, selectedIndex is within
\* 0 .. max(0, len(entries) - 1).
C29_SelectedIndexInRange ==
    /\ model.historyModel.selectedIndex >= 0
    /\ model.historyModel.selectedIndex <= Max(0, Len(model.historyModel.entries) - 1)

\* The oldest of three entries was selected and deleted; the reloaded list
\* has two entries and the selection is on its last one.
C29_Witness ==
    /\ lastMsg = HistoryLoadedMsg(TRUE, <<3, 2>>)
    /\ store = {2, 3}
    /\ model.historyModel.entries = <<3, 2>>
    /\ model.historyModel.selectedIndex = 1

\* The keys that switch tabs.
TabKeys == {"tab", "shift+tab", "1", "2", "3"}

\* C30: after any sequence of messages processed by MainModel.Update,
\* activeTab is one of the three tabs; with the help screen hidden Tab moves
\* it forward and Shift+Tab backward, cyclically; while the help screen
\* shows no key that switches tabs changes it.
C30_ActiveTabValid ==
    /\ model.activeTab \in {TabRequest, TabResponse, TabHistory}
    /\ ~model.showHelp =>
          /\ MainUpdate(model, KeyMsg("tab")).m.activeTab
                 = (IF model.activeTab = TabHistory THEN TabRequest
                    ELSE model.activeTab + 1)
          /\ MainUpdate(model, KeyMsg("shift+tab")).m.activeTab
                 = (IF model.activeTab = TabRequest THEN TabHistory
                    ELSE model.activeTab - 1)
    /\ model.showHelp =>
          \A k \in TabKeys : MainUpdate(model, KeyMsg(k)).m.activeTab = model.activeTab

\* Shift+Tab has been processed and the History tab is active while no
\* response was ever received: it wrapped around from the Request tab.
C30_Witness ==
    /\ lastMsg = KeyMsg("shift+tab")
    /\ model.activeTab = TabHistory
    /\ ~model.responseModel.hasResponse
    /\ ~model.showHelp


\* C28: SaveRequest is an upsert by ID under concurrency: callers that
\* concurrently save a valid request with the same, previously unsaved ID
\* all succeed, and the table ends with exactly one row with that ID.
C28_ConcurrentSavesSucceed ==
    (\A s \in Savers : saving[s].pc = "done" /\ RequestValidate(saving[s].req) = Nil)
        => \A s \in Savers : /\ saving[s].err = Nil
                             /\ saving[s].req.ID \in DOMAIN table

=============================================================================
